---- MODULE Spec2Model ----
(***************************************************************************)
(* printloop: the print-file transformation engine.                        *)
(*                                                                         *)
(* A text line is a sequence of one-character strings; a file is a         *)
(* sequence of lines.  Line numbers are zero-based, as in the Go code, so  *)
(* file line n is lines[n + 1].                                            *)
(***************************************************************************)
EXTENDS Integers, Sequences, FiniteSets, TLC

VARIABLES
    lines,          \* the input file: the lines bufio.Scanner yields
    config,         \* StreamingProcessor.config (the ProcessingRequest)
    printerDef,     \* StreamingProcessor.printerDef
    pc,             \* position of ProcessFile / of the search harness
    err,            \* the error ProcessFile returned ("" while none)
    positions,      \* StreamingProcessor.positions, with the locals of findMarkerPositions
    outputCreated,  \* os.Create(outputPath) has run
    output,         \* the lines handed to the output writer, in order
    iter,           \* the loop variable i of ProcessFile's iteration loop
    markers,        \* a strategy call's markers argument
    searchFromLine, \* a strategy call's searchFromLine argument
    searchOp,       \* the strategy operation that was called
    res,            \* what the strategy call returned
    base,           \* what the same call returned before the file was edited
    inserted,       \* how many skippable lines the edit inserted
    catalogReads,   \* the file names printerConfigs.ReadFile was called with, in order
    opens,          \* how many times ProcessFile has opened the input file
    files           \* the staged files under files/uploads and files/results: <<path, lines>>

vars == <<lines, config, printerDef, pc, err, positions, outputCreated, output,
          iter, markers, searchFromLine, searchOp, res, base, inserted, catalogReads,
          opens, files>>

\* What a bare strategy call leaves alone, and what ProcessFile leaves alone.
procVars == <<config, printerDef, err, positions, outputCreated, output, iter, catalogReads, opens, files>>
searchVars == <<markers, searchFromLine, searchOp, res, base, inserted, catalogReads, files>>

-----------------------------------------------------------------------------
(* Bounds of the model.                                                    *)

MaxLines == 4        \* longest input file of a transformation
MaxIterations == 2   \* largest Iterations of a request
MaxSearchLines == 4  \* longest file handed to a bare strategy call
MaxEditLines == 3    \* longest file that gains skippable lines
MaxInsert == 11      \* most skippable lines inserted between marker entries
MaxGcodeLines == 3   \* longest file handed to a bare coordinate extraction
MaxNameLen == 2      \* longest generated printer name of a request
MaxAggregateLines == 3
MaxSeconds == 2             \* seconds of the clock that upload requests arrive in   \* longest file of print moves whose aggregates are computed

-----------------------------------------------------------------------------
(* Go's strings package, on sequences of characters.                       *)

IsSpace(c) == c = " "

RECURSIVE TrimLeft(_)
TrimLeft(s) == IF s # <<>> /\ IsSpace(Head(s)) THEN TrimLeft(Tail(s)) ELSE s

RECURSIVE TrimRight(_)
TrimRight(s) ==
    IF s # <<>> /\ IsSpace(s[Len(s)]) THEN TrimRight(SubSeq(s, 1, Len(s) - 1)) ELSE s

TrimSpace(s) == TrimRight(TrimLeft(s))

Contains(s, substr) ==
    \E k \in 0..(Len(s) - Len(substr)) : SubSeq(s, k + 1, k + Len(substr)) = substr

HasPrefix(s, prefix) ==
    Len(s) >= Len(prefix) /\ SubSeq(s, 1, Len(prefix)) = prefix

\* strings.Index for a one-character needle: zero-based, -1 when absent.
Index(s, c) ==
    IF \E k \in 1..Len(s) : s[k] = c
    THEN (CHOOSE k \in 1..Len(s) : s[k] = c /\ \A j \in 1..(k - 1) : s[j] # c) - 1
    ELSE -1

\* strings.Split(s, "\n"): always at least one piece.
RECURSIVE SplitLines(_)
SplitLines(s) ==
    LET p == Index(s, "\n")
    IN  IF p = -1 THEN <<s>>
        ELSE <<SubSeq(s, 1, p)>> \o SplitLines(SubSeq(s, p + 2, Len(s)))

-----------------------------------------------------------------------------
(* Search strategies: the shared match kernel (strategy/common.go).        *)

WindowSlack == 10

NoMatch == [found |-> FALSE, begin |-> -1, end |-> -1]

NotFound == [ok |-> FALSE, first |-> 0, last |-> 0]

Found(m) == [ok |-> TRUE, first |-> m.begin, last |-> m.end]

MultilineMatchSwapped(firstMarkerLine, lastMarkerLine) ==
    [found |-> TRUE, begin |-> lastMarkerLine, end |-> firstMarkerLine]

\* The match a completed multi-entry attempt returns.
MultilineMatch(firstMarkerLine, lastMarkerLine) ==
    [found |-> TRUE, begin |-> firstMarkerLine, end |-> lastMarkerLine]

\* The loop of tryMatchMultilineStart.
RECURSIVE tryMatchLoop(_, _, _, _, _, _, _)
tryMatchLoop(window, mks, windowStartLine, windowIdx, markerIdx, firstMarkerLine, lastMarkerLine) ==
    IF markerIdx < Len(mks) /\ windowIdx < Len(window)
    THEN LET cleanLine == TrimSpace(window[windowIdx + 1])
             cleanMarker == TrimSpace(mks[markerIdx + 1])
             currentLine == windowStartLine + windowIdx
         IN  IF Contains(cleanLine, cleanMarker)
             THEN tryMatchLoop(window, mks, windowStartLine, windowIdx + 1,
                               markerIdx + 1,
                               IF firstMarkerLine = -1 THEN currentLine
                                                       ELSE firstMarkerLine,
                               currentLine)
             ELSE IF cleanLine = <<>> \/ HasPrefix(cleanLine, <<";">>)
             THEN tryMatchLoop(window, mks, windowStartLine, windowIdx + 1,
                               markerIdx, firstMarkerLine, lastMarkerLine)
             ELSE NoMatch
    ELSE IF markerIdx = Len(mks)
         THEN MultilineMatch(firstMarkerLine, lastMarkerLine)
         ELSE NoMatch

tryMatchMultilineStart(window, startIdx, windowStartLine, mks) ==
    tryMatchLoop(window, mks, windowStartLine, startIdx, 0, -1, -1)

RECURSIVE findSingleInWindow(_, _, _, _)
findSingleInWindow(window, mks, windowStartLine, k) ==
    IF k >= Len(window) THEN NoMatch
    ELSE IF Contains(TrimSpace(window[k + 1]), TrimSpace(mks[1]))
    THEN [found |-> TRUE, begin |-> windowStartLine + k, end |-> windowStartLine + k]
    ELSE findSingleInWindow(window, mks, windowStartLine, k + 1)

RECURSIVE findMultiInWindow(_, _, _, _)
findMultiInWindow(window, mks, windowStartLine, startIdx) ==
    IF startIdx >= Len(window) THEN NoMatch
    ELSE LET match == tryMatchMultilineStart(window, startIdx, windowStartLine, mks)
         IN  IF match.found THEN match
             ELSE findMultiInWindow(window, mks, windowStartLine, startIdx + 1)

findStartMarkerInWindow(window, mks, windowStartLine) ==
    IF Len(mks) = 1
    THEN findSingleInWindow(window, mks, windowStartLine, 0)
    ELSE findMultiInWindow(window, mks, windowStartLine, 0)

SlideWindowUncapped(window, line, mks) == Append(window, line)

\* One step of the window: append the line, drop the oldest beyond the cap.
SlideWindow(window, line, mks) ==
    LET appended == Append(window, line)
        maxWindowSize == Len(mks) + WindowSlack
    IN  IF Len(appended) > maxWindowSize THEN Tail(appended) ELSE appended

-----------------------------------------------------------------------------
(* FileScanner (strategy/common.go) and after_first_appear.                *)

RECURSIVE scanSingle(_, _, _, _, _, _)
scanSingle(ls, mks, i, endIdx, returnFirst, lastFound) ==
    IF i > endIdx THEN lastFound
    ELSE IF Contains(TrimSpace(ls[i + 1]), TrimSpace(mks[1]))
    THEN IF returnFirst THEN [found |-> TRUE, begin |-> i, end |-> i]
         ELSE scanSingle(ls, mks, i + 1, endIdx, returnFirst,
                         [found |-> TRUE, begin |-> i, end |-> i])
    ELSE scanSingle(ls, mks, i + 1, endIdx, returnFirst, lastFound)

RECURSIVE scanWindow(_, _, _, _, _, _, _)
scanWindow(ls, mks, i, endIdx, returnFirst, window, lastFound) ==
    IF i > endIdx THEN lastFound
    ELSE LET w == SlideWindow(window, ls[i + 1], mks)
             currentWindowStart == i - Len(w) + 1
             matchPos == findStartMarkerInWindow(w, mks, currentWindowStart)
         IN  IF matchPos.found
             THEN IF returnFirst THEN matchPos
                  ELSE scanWindow(ls, mks, i + 1, endIdx, returnFirst, w, matchPos)
             ELSE scanWindow(ls, mks, i + 1, endIdx, returnFirst, w, lastFound)

findMarkerWithSlidingWindow(ls, mks, startIdx, endIdx, returnFirst) ==
    IF Len(mks) = 0 THEN NotFound
    ELSE LET lastFound ==
                 IF Len(mks) = 1
                 THEN scanSingle(ls, mks, startIdx, endIdx, returnFirst, NoMatch)
                 ELSE scanWindow(ls, mks, startIdx, endIdx, returnFirst, <<>>, NoMatch)
         IN  IF lastFound.begin = -1 THEN NotFound ELSE Found(lastFound)

FindFirstMarkerFromStart(ls, mks) ==
    findMarkerWithSlidingWindow(ls, mks, 0, Len(ls) - 1, TRUE)

FindFirstMarkerFromLine(ls, mks, startLine) ==
    IF startLine < 0 \/ startLine >= Len(ls) THEN NotFound
    ELSE findMarkerWithSlidingWindow(ls, mks, startLine, Len(ls) - 1, TRUE)

AfterFirst_FindInitSectionPosition(ls, mks) == FindFirstMarkerFromStart(ls, mks)

AfterFirst_FindPrintSectionPositionInclusive(ls, mks, from) ==
    FindFirstMarkerFromLine(ls, mks, from)

AfterFirst_FindPrintSectionPosition(ls, mks, from) ==
    FindFirstMarkerFromLine(ls, mks, from + 1)

-----------------------------------------------------------------------------
(* after_last_appear (strategy/after-last.go).                             *)

RECURSIVE lastSingle(_, _, _, _)
lastSingle(ls, marker, i, lastFound) ==
    IF i >= Len(ls) THEN lastFound
    ELSE IF Contains(TrimSpace(ls[i + 1]), marker)
    THEN lastSingle(ls, marker, i + 1, [found |-> TRUE, begin |-> i, end |-> i])
    ELSE lastSingle(ls, marker, i + 1, lastFound)

PatternMatchFromNext(startPos, linePos) ==
    [found |-> TRUE, begin |-> startPos + 1, end |-> linePos - 1]

PatternMatchFromPrevious(startPos, linePos) ==
    [found |-> TRUE, begin |-> startPos - 1, end |-> linePos - 1]

\* The match a completed tryMatchMultilinePattern attempt returns.
PatternMatch(startPos, linePos) ==
    [found |-> TRUE, begin |-> startPos, end |-> linePos - 1]

RECURSIVE patternLoop(_, _, _, _, _)
patternLoop(ls, mks, startPos, linePos, markerIdx) ==
    IF markerIdx < Len(mks) /\ linePos < Len(ls)
    THEN LET cleanLine == TrimSpace(ls[linePos + 1])
             cleanMarker == TrimSpace(mks[markerIdx + 1])
         IN  IF Contains(cleanLine, cleanMarker)
             THEN patternLoop(ls, mks, startPos, linePos + 1, markerIdx + 1)
             ELSE IF cleanLine = <<>> \/ HasPrefix(cleanLine, <<";">>)
             THEN patternLoop(ls, mks, startPos, linePos + 1, markerIdx)
             ELSE NoMatch
    ELSE IF markerIdx = Len(mks) THEN PatternMatch(startPos, linePos) ELSE NoMatch

tryMatchMultilinePattern(ls, startPos, mks) == patternLoop(ls, mks, startPos, startPos, 0)

RECURSIVE lastMulti(_, _, _, _)
lastMulti(ls, mks, startPos, lastFound) ==
    IF startPos > Len(ls) - Len(mks) THEN lastFound
    ELSE LET match == tryMatchMultilinePattern(ls, startPos, mks)
         IN  lastMulti(ls, mks, startPos + 1, IF match.found THEN match ELSE lastFound)

AfterLast_FindInitSectionPosition(ls, mks) ==
    LET lastFound == IF Len(mks) = 1
                     THEN lastSingle(ls, TrimSpace(mks[1]), 0, NoMatch)
                     ELSE lastMulti(ls, mks, 0, NoMatch)
    IN  IF lastFound.begin = -1 THEN NotFound ELSE Found(lastFound)

AfterLast_FindPrintSectionPosition(ls, mks, from) ==
    LET lastFound == IF Len(mks) = 1
                     THEN lastSingle(ls, TrimSpace(mks[1]), from + 1, NoMatch)
                     ELSE lastMulti(ls, mks, from + 1, NoMatch)
    IN  IF lastFound.begin = -1 THEN NotFound ELSE Found(lastFound)

-----------------------------------------------------------------------------
(* before_first_appear (strategy/before-first.go): its own scanner loop    *)
(* around the shared window kernel.                                        *)

RECURSIVE beforeScan(_, _, _, _)
beforeScan(ls, mks, lineNum, window) ==
    IF lineNum >= Len(ls) THEN NotFound
    ELSE LET w == SlideWindow(window, ls[lineNum + 1], mks)
             currentWindowStart == lineNum - Len(w) + 1
             matchPos == findStartMarkerInWindow(w, mks, currentWindowStart)
         IN  IF matchPos.found THEN Found(matchPos)
             ELSE beforeScan(ls, mks, lineNum + 1, w)

BeforeFirst_FindInitSectionPosition(ls, mks) == beforeScan(ls, mks, 0, <<>>)

\* The skip loop leaves lineNum at min(searchFromLine + 1, number of lines).
BeforeFirst_FindPrintSectionPosition(ls, mks, from) ==
    LET lineNum == IF from + 1 <= Len(ls) THEN from + 1 ELSE Len(ls)
    IN  beforeScan(ls, mks, IF lineNum < 0 THEN 0 ELSE lineNum, <<>>)

-----------------------------------------------------------------------------
(* CreateSearchStrategy and the SearchStrategy interface (processor.go).   *)

Strategies == {"after_first_appear", "after_last_appear", "before_first_appear"}

FindInitSectionPosition(strategy, ls, mks) ==
    CASE strategy = "after_first_appear" -> AfterFirst_FindInitSectionPosition(ls, mks)
      [] strategy = "after_last_appear" -> AfterLast_FindInitSectionPosition(ls, mks)
      [] strategy = "before_first_appear" -> BeforeFirst_FindInitSectionPosition(ls, mks)

FindPrintSectionPositionAtInit(strategy, ls, mks, from) ==
    CASE strategy = "after_first_appear" -> AfterFirst_FindPrintSectionPosition(ls, mks, from - 1)
      [] strategy = "after_last_appear" -> AfterLast_FindPrintSectionPosition(ls, mks, from - 1)
      [] strategy = "before_first_appear" -> BeforeFirst_FindPrintSectionPosition(ls, mks, from - 1)

FindPrintSectionPosition(strategy, ls, mks, from) ==
    CASE strategy = "after_first_appear" -> AfterFirst_FindPrintSectionPosition(ls, mks, from)
      [] strategy = "after_last_appear" -> AfterLast_FindPrintSectionPosition(ls, mks, from)
      [] strategy = "before_first_appear" -> BeforeFirst_FindPrintSectionPosition(ls, mks, from)

-----------------------------------------------------------------------------
(* G-code parsing and coordinate extraction (processor.go).  A coordinate  *)
(* value is held in tenths, so 3.5 is 35.                                  *)

Digits == <<"0", "1", "2", "3", "4", "5", "6", "7", "8", "9">>

IsDigit(c) == \E d \in 1..Len(Digits) : Digits[d] = c

DigitValue(c) == (CHOOSE d \in 1..Len(Digits) : Digits[d] = c) - 1

\* How many digits start at position p of s (positions from 1).
RECURSIVE DigitRun(_, _)
DigitRun(s, p) == IF p <= Len(s) /\ IsDigit(s[p]) THEN 1 + DigitRun(s, p + 1) ELSE 0

\* The regular expression [-+]?\d*\.?\d+ at position p of s: the length of its
\* match there, 0 when none.  signLen, whole and frac are the lengths of the
\* sign, of the digits before the point and of the digits after it.
SignLen(s, p) == IF p <= Len(s) /\ s[p] \in {"-", "+"} THEN 1 ELSE 0

FracLen(s, dot) == IF dot <= Len(s) /\ s[dot] = "." THEN DigitRun(s, dot + 1) ELSE 0

MatchLen(signLen, whole, frac) ==
    IF frac > 0 THEN signLen + whole + 1 + frac
    ELSE IF whole > 0 THEN signLen + whole
    ELSE 0

NumberLenWhole(s, p, signLen, whole) ==
    MatchLen(signLen, whole, FracLen(s, p + signLen + whole))

NumberLenSigned(s, p, signLen) ==
    NumberLenWhole(s, p, signLen, DigitRun(s, p + signLen))

NumberLen(s, p) == NumberLenSigned(s, p, SignLen(s, p))

RECURSIVE DigitsValue(_)
DigitsValue(ds) ==
    IF ds = <<>> THEN 0
    ELSE 10 * DigitsValue(SubSeq(ds, 1, Len(ds) - 1)) + DigitValue(ds[Len(ds)])

\* strconv.ParseFloat of a matched numeral, in tenths (one fractional digit kept).
Magnitude(body, dot) ==
    IF dot = -1 THEN 10 * DigitsValue(body)
    ELSE 10 * DigitsValue(SubSeq(body, 1, dot)) + DigitValue(body[dot + 2])

Unsigned(t) == IF t # <<>> /\ Head(t) \in {"-", "+"} THEN Tail(t) ELSE t

ParseUnsigned(body) == Magnitude(body, Index(body, "."))

ParseFloat(t) ==
    IF t # <<>> /\ Head(t) = "-" THEN 0 - ParseUnsigned(Unsigned(t))
    ELSE ParseUnsigned(Unsigned(t))

Absent == [set |-> FALSE, val |-> 0]

\* regexp FindStringSubmatch of <letter>([-+]?\d*\.?\d+): the leftmost match.
IsHit(s, letter, p) == s[p] = letter /\ NumberLen(s, p + 1) > 0

CoordinateAt(s, p) ==
    [set |-> TRUE, val |-> ParseFloat(SubSeq(s, p + 1, p + NumberLen(s, p + 1)))]

FindCoordinate(s, letter) ==
    IF \E p \in 1..Len(s) : IsHit(s, letter, p)
    THEN CoordinateAt(s, CHOOSE q \in 1..Len(s) :
                             IsHit(s, letter, q) /\ \A r \in 1..(q - 1) : ~IsHit(s, letter, r))
    ELSE Absent

NoCoords == [isG1 |-> FALSE, X |-> Absent, Y |-> Absent, Z |-> Absent, E |-> Absent]

Coordinates(trimmed) ==
    [isG1 |-> TRUE,
     X |-> FindCoordinate(trimmed, "X"), Y |-> FindCoordinate(trimmed, "Y"),
     Z |-> FindCoordinate(trimmed, "Z"), E |-> FindCoordinate(trimmed, "E")]

AnyCoordinate(coords) ==
    IF coords.X.set \/ coords.Y.set \/ coords.Z.set \/ coords.E.set THEN coords ELSE NoCoords

parseTrimmed(trimmed) ==
    IF ~HasPrefix(trimmed, <<"G", "1">>) THEN NoCoords
    ELSE AnyCoordinate(Coordinates(trimmed))

parseGCodeLine(line) == parseTrimmed(TrimSpace(line))

IsPrintCommandAnyE(coords) ==
    coords.isG1 /\ coords.E.set /\ (coords.X.set \/ coords.Y.set)

IsPrintCommand(coords) ==
    coords.isG1 /\ coords.E.set /\ coords.E.val > 0 /\ (coords.X.set \/ coords.Y.set)

ExtractStart ==
    [firstPrintX |-> Absent, firstPrintY |-> Absent, firstPrintZ |-> Absent,
     lastPrintX |-> Absent, lastPrintY |-> Absent, lastPrintZ |-> Absent,
     currentZ |-> Absent, firstPrintFound |-> FALSE]

\* A print command seen with current Z at z; isFirst: it is the first one after
\* the init section.
ExtractPrint(st, coords, z, isFirst) ==
    [currentZ |-> z,
     firstPrintFound |-> st.firstPrintFound \/ isFirst,
     firstPrintX |-> IF isFirst /\ coords.X.set THEN coords.X ELSE st.firstPrintX,
     firstPrintY |-> IF isFirst /\ coords.Y.set THEN coords.Y ELSE st.firstPrintY,
     firstPrintZ |-> IF isFirst /\ z.set THEN z ELSE st.firstPrintZ,
     lastPrintX |-> IF coords.X.set THEN coords.X ELSE st.lastPrintX,
     lastPrintY |-> IF coords.Y.set THEN coords.Y ELSE st.lastPrintY,
     lastPrintZ |-> IF z.set THEN z ELSE st.lastPrintZ]

ExtractCoordsFromMarker(st, coords, z, lineNum, endInitSectionLastLine) ==
    IF ~IsPrintCommand(coords) THEN [st EXCEPT !.currentZ = z]
    ELSE ExtractPrint(st, coords, z,
                      ~st.firstPrintFound /\ lineNum >= endInitSectionLastLine)

ExtractCoords(st, coords, z, lineNum, endInitSectionLastLine) ==
    IF ~IsPrintCommand(coords) THEN [st EXCEPT !.currentZ = z]
    ELSE ExtractPrint(st, coords, z,
                      ~st.firstPrintFound /\ lineNum > endInitSectionLastLine)

CurrentZOfPrintMoves(st, coords) ==
    IF IsPrintCommand(coords) /\ coords.Z.set THEN coords.Z ELSE st.currentZ

CurrentZ(st, coords) == IF coords.isG1 /\ coords.Z.set THEN coords.Z ELSE st.currentZ

ExtractParsed(st, coords, lineNum, endInitSectionLastLine) ==
    ExtractCoords(st, coords, CurrentZ(st, coords), lineNum, endInitSectionLastLine)

\* One line of the scan loop of extractGCodeCoordinates.
ExtractLine(st, line, lineNum, endInitSectionLastLine) ==
    ExtractParsed(st, parseGCodeLine(line), lineNum, endInitSectionLastLine)

RECURSIVE ExtractScan(_, _, _, _)
ExtractScan(ls, lineNum, endInitSectionLastLine, st) ==
    IF lineNum >= Len(ls) THEN st
    ELSE ExtractScan(ls, lineNum + 1, endInitSectionLastLine,
                     ExtractLine(st, ls[lineNum + 1], lineNum, endInitSectionLastLine))

UnitTests == <<"u", "n", "i", "t", "-", "t", "e", "s", "t", "s">>

ExtractResultStrict(st, printer) ==
    [FirstPrintX |-> st.firstPrintX.val, FirstPrintY |-> st.firstPrintY.val,
     FirstPrintZ |-> st.firstPrintZ.val, LastPrintX |-> st.lastPrintX.val,
     LastPrintY |-> st.lastPrintY.val, LastPrintZ |-> st.lastPrintZ.val,
     failed |-> ~st.firstPrintFound]

ExtractResult(st, printer) ==
    [FirstPrintX |-> st.firstPrintX.val, FirstPrintY |-> st.firstPrintY.val,
     FirstPrintZ |-> st.firstPrintZ.val, LastPrintX |-> st.lastPrintX.val,
     LastPrintY |-> st.lastPrintY.val, LastPrintZ |-> st.lastPrintZ.val,
     failed |-> ~Contains(printer, UnitTests) /\ ~st.firstPrintFound]

\* The result of extractGCodeCoordinates: the six coordinates and whether it failed.
extractGCodeCoordinates(ls, endInitSectionLastLine, printer) ==
    ExtractResult(ExtractScan(ls, 0, endInitSectionLastLine, ExtractStart), printer)

-----------------------------------------------------------------------------
(* The streaming transformer (processor.go).                               *)

validateInputZeroAllowed(def, cfg) ==
    IF Len(def.EndInitSection) = 0 THEN "EndInitSection marker cannot be empty"
    ELSE IF Len(def.EndPrintSection) = 0 THEN "EndPrintSection marker cannot be empty"
    ELSE IF cfg.Iterations < 0 THEN "iterations must be positive"
    ELSE IF \E a \in 1..Len(def.EndInitSection), b \in 1..Len(def.EndPrintSection) :
                Contains(def.EndInitSection[a], def.EndPrintSection[b])
    THEN "EndInitSection marker line contains EndPrintSection marker"
    ELSE ""

\* validateInput: "" when the input is valid, else the error.
validateInput(def, cfg) ==
    IF Len(def.EndInitSection) = 0 THEN "EndInitSection marker cannot be empty"
    ELSE IF Len(def.EndPrintSection) = 0 THEN "EndPrintSection marker cannot be empty"
    ELSE IF cfg.Iterations <= 0 THEN "iterations must be positive"
    ELSE IF \E a \in 1..Len(def.EndInitSection), b \in 1..Len(def.EndPrintSection) :
                Contains(def.EndInitSection[a], def.EndPrintSection[b])
    THEN "EndInitSection marker line contains EndPrintSection marker"
    ELSE ""

SplitAlways(before, after) == TRUE

\* The condition under which a marker line with a semicolon is split in two.
SplitWanted(before, after) == before # <<>> /\ after # <<>>

RECURSIVE splitLoop(_, _, _)
splitLoop(line, mks, m) ==
    IF m > Len(mks) THEN <<line>>
    ELSE LET cleanMarker == TrimSpace(mks[m])
             semicolonPos == Index(line, ";")
             before == TrimSpace(SubSeq(line, 1, semicolonPos))
             after == TrimSpace(SubSeq(line, semicolonPos + 1, Len(line)))
         IN  IF Contains(line, cleanMarker) /\ semicolonPos # -1 /\ SplitWanted(before, after)
             THEN <<before, after>>
             ELSE splitLoop(line, mks, m + 1)

processLineWithMarkerSplit(line, mks) == splitLoop(line, mks, 1)

\* The second loop of streamLinesRange: what it writes from lineNum on.
RECURSIVE rangeLoop(_, _, _, _, _)
rangeLoop(ls, lineNum, endLine, processMarkerSplit, mks) ==
    IF ~(lineNum <= endLine /\ lineNum < Len(ls)) THEN <<>>
    ELSE (IF processMarkerSplit THEN processLineWithMarkerSplit(ls[lineNum + 1], mks)
                                ELSE <<ls[lineNum + 1]>>)
         \o rangeLoop(ls, lineNum + 1, endLine, processMarkerSplit, mks)

SkipToShort(ls, startLine) ==
    IF startLine <= 1 THEN 0 ELSE IF startLine <= Len(ls) THEN startLine - 1 ELSE Len(ls)

\* The skip loop of both streaming functions: where the scanner stands after it.
SkipTo(ls, startLine) ==
    IF startLine <= 0 THEN 0 ELSE IF startLine <= Len(ls) THEN startLine ELSE Len(ls)

streamLinesRange(ls, startLine, endLine, processMarkerSplit, mks) ==
    rangeLoop(ls, SkipTo(ls, startLine), endLine, processMarkerSplit, mks)

streamLinesFromPosition(ls, startLine) ==
    SubSeq(ls, SkipTo(ls, startLine) + 1, Len(ls))

\* The printer templates of the model, by what template.Execute yields for them.
Templates == {"empty", "banner", "gap", "oneline", "notlast", "badfield"}

Execute(tmpl, data) ==
    LET n == <<Digits[data.Iteration + 1]>>
    IN  CASE tmpl \in {"", "empty"} -> [ok |-> TRUE, text |-> <<>>]
          [] tmpl = "banner" ->
                [ok |-> TRUE, text |-> <<";", "g">> \o n \o <<"\n", ";", "e">> \o n \o <<"\n">>]
          [] tmpl = "gap" -> [ok |-> TRUE, text |-> <<"g", "\n", "\n", "h">>]
          [] tmpl = "oneline" -> [ok |-> TRUE, text |-> <<"g">> \o n]
          [] tmpl = "notlast" ->
                [ok |-> TRUE,
                 text |-> IF data.Iteration < data.Request.Iterations
                          THEN <<"w">> \o n \o <<"\n", "v", "\n">> ELSE <<>>]
          [] tmpl = "badfield" ->
                [ok |-> data.Iteration < 2, text |-> <<"g", "\n">>]

KeepNonEmpty(line, pieces) == line # <<>>

KeepEvery(line, pieces) == TRUE

\* Which pieces of the rendered text streamGeneratedContent writes.
KeepPiece(line, pieces) == line # <<>> \/ Len(pieces) = 1

streamGeneratedContent(def, cfg, pos, iteration) ==
    LET templateData == [PrinterName |-> def.Name, Iteration |-> iteration,
                         Request |-> cfg, Positions |-> pos]
        out == Execute(def.Template, templateData)
        pieces == SplitLines(out.text)
    IN  [ok |-> out.ok,
         written |-> IF out.ok
                     THEN SelectSeq(pieces, LAMBDA line : KeepPiece(line, pieces))
                     ELSE <<>>]

-----------------------------------------------------------------------------
(* Inputs: the lines a file is made of and the printer definitions.        *)

LA == <<"A">>
LAc == <<"A", " ", ";", "c">>
LcA == <<";", "A">>
LM == <<"M">>
LX == <<"x">>
LG == <<"G", "1", " ", "X", "1", " ", "E", "1">>
LsA == <<" ", "A">>
LAM == <<"A", "M">>

LineKinds == {LA, LAc, LcA, LM, LX, LG}

FilesUpTo(kinds, n) == UNION {[1..k -> kinds] : k \in 0..n}

E3 == <<"e", "3">>

Def(printer, is, ps, init, print, tmpl) ==
    [Name |-> printer, EndInitSection |-> init, EndPrintSection |-> print,
     EndInitSectionStrategy |-> is, EndPrintSectionStrategy |-> ps, Template |-> tmpl]

\* The printer definitions a processor is constructed from: one per pair of
\* strategies, and three that validateInput rejects.
ValidDefs ==
    { Def(E3, "after_first_appear", "after_first_appear", <<LA>>, <<LM>>, "banner"),
      Def(UnitTests, "after_first_appear", "after_last_appear", <<LA>>, <<LM>>, "empty"),
      Def(E3, "after_first_appear", "before_first_appear", <<LA, LX>>, <<LM>>, "gap"),
      Def(UnitTests, "after_last_appear", "after_first_appear", <<LA>>, <<LM, LM>>, "oneline"),
      Def(UnitTests, "after_last_appear", "after_last_appear", <<LA, LX>>, <<LM>>, "notlast"),
      Def(E3, "after_last_appear", "before_first_appear", <<LsA>>, <<LM>>, "badfield"),
      Def(UnitTests, "before_first_appear", "after_first_appear", <<LA, LX>>, <<LM, LM>>, "empty"),
      Def(UnitTests, "before_first_appear", "after_last_appear", <<LsA>>, <<LM>>, "banner"),
      Def(E3, "before_first_appear", "before_first_appear", <<LA>>, <<LM>>, "notlast") }

InvalidDefs ==
    { Def(UnitTests, "after_first_appear", "after_last_appear", <<>>, <<LM>>, "banner"),
      Def(UnitTests, "after_first_appear", "after_last_appear", <<LA>>, <<>>, "banner"),
      Def(UnitTests, "after_first_appear", "after_last_appear", <<LX, LAM>>, <<LM>>, "banner") }

ZeroPositions ==
    [EndInitSectionFirstLine |-> 0, EndInitSectionLastLine |-> 0,
     EndPrintSectionFirstLine |-> 0, EndPrintSectionLastLine |-> 0,
     FirstPrintX |-> 0, FirstPrintY |-> 0, FirstPrintZ |-> 0,
     LastPrintX |-> 0, LastPrintY |-> 0, LastPrintZ |-> 0]

NoResult == [ok |-> FALSE, first |-> 0, last |-> 0]

SearchIdle ==
    /\ markers = <<>>
    /\ searchFromLine = 0
    /\ searchOp = "none"
    /\ res = NoResult
    /\ base = NoResult
    /\ inserted = 0

\* A processor as NewStreamingProcessor returns it, about to run ProcessFile.
Init ==
    /\ lines \in FilesUpTo(LineKinds, MaxLines)
    /\ printerDef \in ValidDefs \cup InvalidDefs
    /\ config \in [Printer : {printerDef.Name}, Iterations : -1..MaxIterations]
    /\ pc = "validateInput"
    /\ err = ""
    /\ positions = ZeroPositions
    /\ outputCreated = FALSE
    /\ output = <<>>
    /\ iter = 0
    /\ SearchIdle
    /\ catalogReads = <<>>
    /\ files = {}
    /\ opens = 0

Fail(e) ==
    /\ pc' = "failed"
    /\ err' = e

\* os.Open(inputPath), n times, each closed by the deferred file.Close().
Opened(n) == opens' = opens + n

ValidateInputAfterCreate ==
    /\ pc = "validateInput"
    /\ outputCreated' = TRUE
    /\ LET e == validateInput(printerDef, config)
       IN  IF e # "" THEN Fail(e) ELSE pc' = "findInit" /\ err' = err
    /\ UNCHANGED <<lines, config, printerDef, positions, output, iter>>
    /\ Opened(0)
    /\ UNCHANGED searchVars

\* ProcessFile, lines 269-271.
ValidateInput ==
    /\ pc = "validateInput"
    /\ LET e == validateInput(printerDef, config)
       IN  IF e # "" THEN Fail(e) ELSE pc' = "findInit" /\ err' = err
    /\ UNCHANGED <<lines, config, printerDef, positions, outputCreated, output, iter>>
    /\ Opened(0)
    /\ UNCHANGED searchVars

\* findMarkerPositions, lines 327-330.
FindInit ==
    /\ pc = "findInit"
    /\ LET r == FindInitSectionPosition(printerDef.EndInitSectionStrategy, lines,
                                        printerDef.EndInitSection)
       IN  IF ~r.ok THEN Fail("marker not found") /\ positions' = positions
           ELSE /\ pc' = "findPrint"
                /\ err' = err
                /\ positions' = [positions EXCEPT !.EndInitSectionFirstLine = r.first,
                                                   !.EndInitSectionLastLine = r.last]
    /\ UNCHANGED <<lines, config, printerDef, outputCreated, output, iter>>
    /\ Opened(1)
    /\ UNCHANGED searchVars

\* findMarkerPositions, lines 333-336.
FindPrint ==
    /\ pc = "findPrint"
    /\ LET r == FindPrintSectionPosition(printerDef.EndPrintSectionStrategy, lines,
                                         printerDef.EndPrintSection,
                                         positions.EndInitSectionLastLine)
       IN  IF ~r.ok THEN Fail("marker not found") /\ positions' = positions
           ELSE /\ pc' = "checkOrder"
                /\ err' = err
                /\ positions' = [positions EXCEPT !.EndPrintSectionFirstLine = r.first,
                                                   !.EndPrintSectionLastLine = r.last]
    /\ UNCHANGED <<lines, config, printerDef, outputCreated, output, iter>>
    /\ Opened(1)
    /\ UNCHANGED searchVars

\* findMarkerPositions, lines 338-340.
CheckOrder ==
    /\ pc = "checkOrder"
    /\ IF positions.EndInitSectionLastLine >= positions.EndPrintSectionFirstLine
       THEN Fail("invalid marker positions")
       ELSE pc' = "extract" /\ err' = err
    /\ UNCHANGED <<lines, config, printerDef, positions, outputCreated, output, iter>>
    /\ Opened(0)
    /\ UNCHANGED searchVars

\* findMarkerPositions, lines 343-361, and ProcessFile, line 279.
Extract ==
    /\ pc = "extract"
    /\ LET c == extractGCodeCoordinates(lines, positions.EndInitSectionLastLine,
                                        config.Printer)
       IN  IF c.failed THEN Fail("no print commands found") /\ positions' = positions
           ELSE /\ pc' = "create"
                /\ err' = err
                /\ positions' = [positions EXCEPT
                                    !.FirstPrintX = c.FirstPrintX, !.FirstPrintY = c.FirstPrintY,
                                    !.FirstPrintZ = c.FirstPrintZ, !.LastPrintX = c.LastPrintX,
                                    !.LastPrintY = c.LastPrintY, !.LastPrintZ = c.LastPrintZ]
    /\ UNCHANGED <<lines, config, printerDef, outputCreated, output, iter>>
    /\ Opened(1)
    /\ UNCHANGED searchVars

CreateOutputRenderingFirst ==
    /\ pc = "create"
    /\ IF \E n \in 1..config.Iterations : ~streamGeneratedContent(printerDef, config, positions, n).ok
       THEN Fail("failed to execute template") /\ UNCHANGED <<outputCreated, output>>
       ELSE outputCreated' = TRUE /\ output' = <<>> /\ pc' = "header" /\ err' = err
    /\ UNCHANGED <<lines, config, printerDef, positions, iter>>
    /\ Opened(0)
    /\ UNCHANGED searchVars

\* ProcessFile, lines 282-289.
CreateOutput ==
    /\ pc = "create"
    /\ outputCreated' = TRUE
    /\ output' = <<>>
    /\ pc' = "header"
    /\ UNCHANGED <<lines, config, printerDef, err, positions, iter>>
    /\ Opened(0)
    /\ UNCHANGED searchVars

LoopTargetOneMore(n) == IF n <= config.Iterations THEN "body" ELSE "footer"

\* Where the iteration loop of ProcessFile goes when i stands at n.
LoopTarget(n) == IF n < config.Iterations THEN "body" ELSE "footer"

\* ProcessFile, lines 292-294, and the loop's first test.
StreamHeader ==
    /\ pc = "header"
    /\ output' = output \o streamLinesRange(lines, 0, positions.EndInitSectionLastLine,
                                             TRUE, printerDef.EndInitSection)
    /\ iter' = 0
    /\ pc' = LoopTarget(0)
    /\ UNCHANGED <<lines, config, printerDef, err, positions, outputCreated>>
    /\ Opened(1)
    /\ UNCHANGED searchVars

\* ProcessFile, lines 299-303.
StreamBody ==
    /\ pc = "body"
    /\ output' = IF positions.EndInitSectionLastLine + 1 < positions.EndPrintSectionFirstLine
                 THEN output \o streamLinesRange(lines, positions.EndInitSectionLastLine + 1,
                                                 positions.EndPrintSectionFirstLine - 1,
                                                 FALSE, printerDef.EndInitSection)
                 ELSE output
    /\ pc' = "endMarker"
    /\ UNCHANGED <<lines, config, printerDef, err, positions, outputCreated, iter>>
    /\ Opened(IF positions.EndInitSectionLastLine + 1 < positions.EndPrintSectionFirstLine THEN 1 ELSE 0)
    /\ UNCHANGED searchVars

\* ProcessFile, lines 306-308.
StreamEndMarker ==
    /\ pc = "endMarker"
    /\ output' = output \o streamLinesRange(lines, positions.EndPrintSectionFirstLine,
                                             positions.EndPrintSectionLastLine,
                                             FALSE, printerDef.EndInitSection)
    /\ pc' = "generated"
    /\ UNCHANGED <<lines, config, printerDef, err, positions, outputCreated, iter>>
    /\ Opened(1)
    /\ UNCHANGED searchVars

StreamGeneratedZeroBased ==
    /\ pc = "generated"
    /\ LET g == streamGeneratedContent(printerDef, config, positions, iter)
       IN  IF ~g.ok
           THEN Fail("failed to execute template") /\ UNCHANGED <<output, iter>>
           ELSE /\ output' = output \o g.written
                /\ iter' = iter + 1
                /\ pc' = LoopTarget(iter + 1)
                /\ err' = err
    /\ UNCHANGED <<lines, config, printerDef, positions, outputCreated>>
    /\ Opened(0)
    /\ UNCHANGED searchVars

\* ProcessFile, lines 311-314: the template of iteration i + 1, then i++.
StreamGenerated ==
    /\ pc = "generated"
    /\ LET g == streamGeneratedContent(printerDef, config, positions, iter + 1)
       IN  IF ~g.ok
           THEN Fail("failed to execute template") /\ UNCHANGED <<output, iter>>
           ELSE /\ output' = output \o g.written
                /\ iter' = iter + 1
                /\ pc' = LoopTarget(iter + 1)
                /\ err' = err
    /\ UNCHANGED <<lines, config, printerDef, positions, outputCreated>>
    /\ Opened(0)
    /\ UNCHANGED searchVars

\* ProcessFile, lines 317-321.
StreamFooter ==
    /\ pc = "footer"
    /\ output' = output \o streamLinesFromPosition(lines, positions.EndPrintSectionLastLine + 1)
    /\ pc' = "done"
    /\ UNCHANGED <<lines, config, printerDef, err, positions, outputCreated, iter>>
    /\ Opened(1)
    /\ UNCHANGED searchVars

Next ==
    \/ ValidateInput
    \/ FindInit
    \/ FindPrint
    \/ CheckOrder
    \/ Extract
    \/ CreateOutput
    \/ StreamHeader
    \/ StreamBody
    \/ StreamEndMarker
    \/ StreamGenerated
    \/ StreamFooter

Spec == Init /\ [][Next]_vars

-----------------------------------------------------------------------------
(* A strategy called on its own, as the strategy tests call it: one file,  *)
(* one marker sequence, one operation; then the file gains skippable lines *)
(* between the matched marker entries and the same operation runs again.   *)

Lc == <<";", "c">>
LBlank == <<" ">>

SearchKinds == {LA, LM, LcA, LX, Lc}

SearchMarkers == {<<LA>>, <<LsA, LM>>}

SkippableKinds == {Lc, LBlank}

InitOps == {"after_first_appear.init", "after_last_appear.init", "before_first_appear.init"}

PrintOps == {"after_first_appear.print", "after_last_appear.print", "before_first_appear.print"}

\* The operation op names, applied to a file.
Call(op, ls, mks, from) ==
    CASE op = "after_first_appear.init" -> AfterFirst_FindInitSectionPosition(ls, mks)
      [] op = "after_last_appear.init" -> AfterLast_FindInitSectionPosition(ls, mks)
      [] op = "before_first_appear.init" -> BeforeFirst_FindInitSectionPosition(ls, mks)
      [] op = "after_first_appear.print" -> AfterFirst_FindPrintSectionPosition(ls, mks, from)
      [] op = "after_last_appear.print" -> AfterLast_FindPrintSectionPosition(ls, mks, from)
      [] op = "before_first_appear.print" -> BeforeFirst_FindPrintSectionPosition(ls, mks, from)

\* ls with k copies of line put in front of zero-based line p.
InsertLines(ls, p, line, k) ==
    SubSeq(ls, 1, p) \o [j \in 1..k |-> line] \o SubSeq(ls, p + 1, Len(ls))

InitSearch ==
    /\ lines \in FilesUpTo(SearchKinds, MaxSearchLines)
    /\ markers \in SearchMarkers
    /\ searchFromLine = -1
    /\ searchOp = "none"
    /\ res = NoResult
    /\ base = NoResult
    /\ inserted = 0
    /\ pc = "search"
    /\ printerDef = Def(UnitTests, "after_first_appear", "after_first_appear", <<LA>>, <<LM>>, "empty")
    /\ config = [Printer |-> UnitTests, Iterations |-> 1]
    /\ err = ""
    /\ positions = ZeroPositions
    /\ outputCreated = FALSE
    /\ output = <<>>
    /\ iter = 0
    /\ catalogReads = <<>>
    /\ files = {}
    /\ opens = 0

\* An init search: on a fresh file, or again on the edited one.
CallInit(op) ==
    /\ pc = "search" \/ (pc = "edited" /\ searchOp = op)
    /\ searchOp' = op
    /\ res' = Call(op, lines, markers, -1)
    /\ pc' = IF pc = "search" THEN "searched" ELSE "researched"
    /\ UNCHANGED <<lines, markers, searchFromLine, base, inserted>>
    /\ UNCHANGED procVars

\* A print search: on a fresh file from any line of it, or again on the edited one.
CallPrint(op) ==
    /\ \/ pc = "search" /\ searchFromLine' \in 0..(Len(lines) - 1)
       \/ pc = "edited" /\ searchOp = op /\ searchFromLine' = searchFromLine
    /\ searchOp' = op
    /\ res' = Call(op, lines, markers, searchFromLine')
    /\ pc' = IF pc = "search" THEN "searched" ELSE "researched"
    /\ UNCHANGED <<lines, markers, base, inserted>>
    /\ UNCHANGED procVars

AfterFirstInit == CallInit("after_first_appear.init")

AfterFirstPrint == CallPrint("after_first_appear.print")

AfterLastInit == CallInit("after_last_appear.init")

AfterLastPrint == CallPrint("after_last_appear.print")

BeforeFirstInit == CallInit("before_first_appear.init")

BeforeFirstPrint == CallPrint("before_first_appear.print")

\* The edit: skippable lines go between two matched entries of a multi-entry sequence.
InsertSkippable ==
    /\ pc = "searched"
    /\ res.ok
    /\ Len(markers) > 1
    /\ Len(lines) <= MaxEditLines
    /\ \E p \in (res.first + 1)..res.last, k \in 1..MaxInsert, line \in SkippableKinds :
           /\ lines' = InsertLines(lines, p, line, k)
           /\ inserted' = k
    /\ base' = res
    /\ pc' = "edited"
    /\ UNCHANGED <<markers, searchFromLine, searchOp, res>>
    /\ UNCHANGED procVars

NextSearch ==
    \/ AfterFirstInit
    \/ AfterFirstPrint
    \/ AfterLastInit
    \/ AfterLastPrint
    \/ BeforeFirstInit
    \/ BeforeFirstPrint
    \/ InsertSkippable

SpecSearch == InitSearch /\ [][NextSearch]_vars

\* The two strategies that match inside a sliding window, on their own.
NextWindow ==
    \/ AfterFirstInit
    \/ AfterFirstPrint
    \/ BeforeFirstInit
    \/ BeforeFirstPrint
    \/ InsertSkippable

SpecWindow == InitSearch /\ [][NextWindow]_vars

-----------------------------------------------------------------------------
(* The two first-appearance strategies called on their own with any        *)
(* argument a caller can pass: an empty marker sequence, a searchFromLine  *)
(* before the file or at its end.                                          *)

AnyMarkers == SearchMarkers \cup {<<>>}

InitAny ==
    /\ lines \in FilesUpTo(SearchKinds, MaxSearchLines)
    /\ markers \in AnyMarkers
    /\ searchFromLine = -1
    /\ searchOp = "none"
    /\ res = NoResult
    /\ base = NoResult
    /\ inserted = 0
    /\ pc = "search"
    /\ printerDef = Def(UnitTests, "after_first_appear", "after_first_appear", <<LA>>, <<LM>>, "empty")
    /\ config = [Printer |-> UnitTests, Iterations |-> 1]
    /\ err = ""
    /\ positions = ZeroPositions
    /\ outputCreated = FALSE
    /\ output = <<>>
    /\ iter = 0
    /\ catalogReads = <<>>
    /\ files = {}
    /\ opens = 0

InitAny_Call(op) ==
    /\ pc = "search"
    /\ searchOp' = op
    /\ res' = Call(op, lines, markers, -1)
    /\ pc' = "searched"
    /\ UNCHANGED <<lines, markers, searchFromLine, base, inserted>>
    /\ UNCHANGED procVars

PrintAny_Call(op) ==
    /\ pc = "search"
    /\ searchFromLine' \in -2..Len(lines)
    /\ searchOp' = op
    /\ res' = Call(op, lines, markers, searchFromLine')
    /\ pc' = "searched"
    /\ UNCHANGED <<lines, markers, base, inserted>>
    /\ UNCHANGED procVars

AfterFirstInitAny == InitAny_Call("after_first_appear.init")

AfterFirstPrintAny == PrintAny_Call("after_first_appear.print")

BeforeFirstInitAny == InitAny_Call("before_first_appear.init")

BeforeFirstPrintAny == PrintAny_Call("before_first_appear.print")

NextAny ==
    \/ AfterFirstInitAny
    \/ AfterFirstPrintAny
    \/ BeforeFirstInitAny
    \/ BeforeFirstPrintAny

SpecAny == InitAny /\ [][NextAny]_vars

-----------------------------------------------------------------------------
(* Coordinate extraction called on its own, as the coordinate tests call   *)
(* findMarkerPositions: a file of G-code lines, the last line of the init  *)
(* section, and a printer name with or without "unit-tests".               *)

GXY == <<"G", "1", " ", "X", "2", " ", "Y", "3", " ", "E", "1">>

GY == <<"G", "1", " ", "Y", "4", " ", "Z", "6", " ", "E", "2">>

GZE == <<"G", "1", " ", "Z", "5", " ", "E", "1">>

GE0 == <<"G", "1", " ", "X", "6", " ", "Z", "7", " ", "E", "0">>

GEneg == <<"G", "1", " ", "Y", "8", " ", "E", "-", "1">>

GTravel == <<"G", "1", " ", "X", "9", " ", "Z", "2">>

G0 == <<"G", "0", " ", "X", "5", " ", "E", "1">>

GcodeKinds == {LG, GXY, GY, GZE, GE0, GEneg, GTravel, G0}

InitExtract ==
    /\ lines \in FilesUpTo(GcodeKinds, MaxGcodeLines)
    /\ printerDef = Def(UnitTests, "after_first_appear", "after_first_appear", <<LA>>, <<LM>>, "empty")
    /\ config \in [Printer : {UnitTests, E3}, Iterations : {1}]
    /\ positions \in { [ZeroPositions EXCEPT !.EndInitSectionLastLine = n] :
                           n \in 0..(MaxGcodeLines - 1) }
    /\ pc = "extract"
    /\ err = ""
    /\ outputCreated = FALSE
    /\ output = <<>>
    /\ iter = 0
    /\ SearchIdle
    /\ catalogReads = <<>>
    /\ files = {}
    /\ opens = 0

SpecExtract == InitExtract /\ [][Extract]_vars

-----------------------------------------------------------------------------
(* The aggregates of the print moves (averagePrintX/Y, minPrintX/Y,        *)
(* maxPrintX/Y): sums, counts and extremes kept in float64.                *)

\* A float64 that is not negative: the number m (a bit sequence, most
\* significant bit first, at most SignificandBits long) times 2^e.  Sums and
\* quotients are rounded to nearest, ties to even, as the hardware does.
SignificandBits == 53

ZeroBits == <<0, 0, 0, 0, 0, 0, 0, 0, 0, 0, 0, 0, 0, 0, 0, 0, 0, 0, 0, 0, 0, 0, 0, 0, 0, 0, 0, 0, 0, 0, 0, 0, 0, 0, 0, 0, 0, 0, 0, 0, 0, 0, 0, 0, 0, 0, 0, 0, 0, 0, 0, 0, 0, 0, 0, 0, 0, 0, 0, 0, 0, 0, 0, 0>>

Zeros(k) == SubSeq(ZeroBits, 1, k)

TrimZeros(b) ==
    IF \A k \in 1..Len(b) : b[k] = 0 THEN <<>>
    ELSE SubSeq(b, CHOOSE k \in 1..Len(b) : b[k] = 1 /\ \A j \in 1..(k - 1) : b[j] = 0, Len(b))

RECURSIVE NatBits(_)
NatBits(n) == IF n = 0 THEN <<>> ELSE Append(NatBits(n \div 2), n % 2)

\* A bit sequence as digits of base 1024 (ten bits each), and back.
LimbBit(b, p) == IF p >= 1 THEN b[p] ELSE 0

\* Digit j of b, b padded on the left to a multiple of ten bits; p is the
\* place in b of the bit before the digit's first one.
LimbFrom(b, p) ==
    512 * LimbBit(b, p + 1) + 256 * LimbBit(b, p + 2) + 128 * LimbBit(b, p + 3)
    + 64 * LimbBit(b, p + 4) + 32 * LimbBit(b, p + 5) + 16 * LimbBit(b, p + 6)
    + 8 * LimbBit(b, p + 7) + 4 * LimbBit(b, p + 8) + 2 * LimbBit(b, p + 9)
    + LimbBit(b, p + 10)

LimbAt(b, j) == LimbFrom(b, 10 * (j - 1) - ((10 - (Len(b) % 10)) % 10))

Limbs(b) == [j \in 1..((Len(b) + 9) \div 10) |-> LimbAt(b, j)]

Bits(limbs) ==
    [i \in 1..(10 * Len(limbs)) |->
        (limbs[((i - 1) \div 10) + 1] \div (2 ^ (9 - ((i - 1) % 10)))) % 2]

DigitAt(d, i) == IF i < Len(d) THEN d[Len(d) - i] ELSE 0

RECURSIVE AddLimbs(_, _, _, _, _)
AddLimbs(a, b, i, carry, acc) ==
    IF i >= Len(a) /\ i >= Len(b) THEN <<carry>> \o acc
    ELSE AddLimbs(a, b, i + 1, (DigitAt(a, i) + DigitAt(b, i) + carry) \div 1024,
                  <<(DigitAt(a, i) + DigitAt(b, i) + carry) % 1024>> \o acc)

AddBits(a, b, carry) == TrimZeros(Bits(AddLimbs(Limbs(a), Limbs(b), 0, carry, <<>>)))

F64(m, e) == [m |-> m, e |-> e]

F64Zero == F64(<<>>, 0)

RoundUp(keep, e) ==
    LET up == AddBits(keep, <<1>>, 0)
    IN  IF Len(up) > SignificandBits THEN F64(SubSeq(up, 1, SignificandBits), e + 1)
        ELSE F64(up, e)

RoundBits(bits, e, sticky) ==
    IF Len(bits) <= SignificandBits THEN F64(bits, e)
    ELSE LET keep == SubSeq(bits, 1, SignificandBits)
             half == bits[SignificandBits + 1] = 1
             rest == sticky \/ \E k \in (SignificandBits + 2)..Len(bits) : bits[k] = 1
             e2 == e + Len(bits) - SignificandBits
         IN  IF half /\ (rest \/ keep[SignificandBits] = 1) THEN RoundUp(keep, e2)
             ELSE F64(keep, e2)

Aligned(a, b) == TrimZeros(a.m \o Zeros(IF a.e > b.e THEN a.e - b.e ELSE 0))

BitsLess(a, b) ==
    IF Len(a) # Len(b) THEN Len(a) < Len(b)
    ELSE \E k \in 1..Len(a) : a[k] < b[k] /\ \A j \in 1..(k - 1) : a[j] = b[j]

F64Less(a, b) == BitsLess(Aligned(a, b), Aligned(b, a))

F64LessEq(a, b) == ~F64Less(b, a)

\* a + b in float64.
F64Add(a, b) ==
    RoundBits(TrimZeros(AddBits(Aligned(a, b), Aligned(b, a), 0)),
              IF a.e < b.e THEN a.e ELSE b.e, FALSE)

RECURSIVE DivLimbs(_, _, _, _, _)
DivLimbs(limbs, c, k, r, q) ==
    IF k > Len(limbs) THEN [q |-> q, r |-> r]
    ELSE DivLimbs(limbs, c, k + 1, (1024 * r + limbs[k]) % c,
                  Append(q, (1024 * r + limbs[k]) \div c))

LongDiv(bits, c) == DivLimbs(Limbs(bits), c, 1, 0, <<>>)

GuardBits == SignificandBits + 8

F64DivQuotient(d, e) == RoundBits(TrimZeros(Bits(d.q)), e, d.r # 0)

\* a / float64(c) in float64, c a small positive integer.
F64Div(a, c) ==
    IF a.m = <<>> THEN F64Zero
    ELSE F64DivQuotient(LongDiv(a.m \o Zeros(GuardBits), c), a.e - GuardBits)

\* strconv.ParseFloat of a numeral worth n tenths: the float64 nearest n / 10.
FromTenths(n) == F64Div(F64(NatBits(n), 0), 10)

NoValue == [set |-> FALSE, val |-> F64Zero]

AggregateStart ==
    [sumX |-> F64Zero, countX |-> 0, minX |-> NoValue, maxX |-> NoValue,
     sumY |-> F64Zero, countY |-> 0, minY |-> NoValue, maxY |-> NoValue]

SmallerOf(old, v) == IF ~old.set \/ F64Less(v, old.val) THEN [set |-> TRUE, val |-> v] ELSE old

LargerOf(old, v) == IF ~old.set \/ F64Less(old.val, v) THEN [set |-> TRUE, val |-> v] ELSE old

AggregateX(st, x) ==
    [st EXCEPT !.sumX = F64Add(st.sumX, x), !.countX = st.countX + 1,
               !.minX = SmallerOf(st.minX, x), !.maxX = LargerOf(st.maxX, x)]

AggregateY(st, y) ==
    [st EXCEPT !.sumY = F64Add(st.sumY, y), !.countY = st.countY + 1,
               !.minY = SmallerOf(st.minY, y), !.maxY = LargerOf(st.maxY, y)]

AggregateYOf(st, coords) ==
    IF coords.Y.set THEN AggregateY(st, FromTenths(coords.Y.val)) ELSE st

\* The accumulation inside the print-command block.
AggregatePrint(st, coords) ==
    AggregateYOf(IF coords.X.set THEN AggregateX(st, FromTenths(coords.X.val)) ELSE st, coords)

AggregateCoords(st, coords) == IF IsPrintCommand(coords) THEN AggregatePrint(st, coords) ELSE st

RECURSIVE AggregateScan(_, _, _)
AggregateScan(ls, lineNum, st) ==
    IF lineNum >= Len(ls) THEN st
    ELSE AggregateScan(ls, lineNum + 1, AggregateCoords(st, parseGCodeLine(ls[lineNum + 1])))

Average(sum, count) == IF count > 0 THEN F64Div(sum, count) ELSE F64Zero

AggregateResult(st) ==
    [AveragePrintX |-> Average(st.sumX, st.countX), AveragePrintY |-> Average(st.sumY, st.countY),
     MinPrintX |-> st.minX.val, MaxPrintX |-> st.maxX.val,
     MinPrintY |-> st.minY.val, MaxPrintY |-> st.maxY.val,
     countX |-> st.countX, countY |-> st.countY]

\* Lines whose coordinates are not negative.
AX1 == <<"G", "1", " ", "X", "0", ".", "1", " ", "E", "1">>
AX7 == <<"G", "1", " ", "X", "0", ".", "7", " ", "E", "1">>
AXY == <<"G", "1", " ", "X", "0", ".", "3", " ", "Y", "2", " ", "E", "1">>
AY2 == <<"G", "1", " ", "Y", "0", ".", "2", " ", "E", "1">>
AE0 == <<"G", "1", " ", "X", "5", " ", "E", "0">>
ATravel == <<"G", "1", " ", "X", "9", " ", "Y", "9">>

AggregateKinds == {AX1, AX7, AXY, AY2, AE0, ATravel}

InitAggregate ==
    /\ lines \in FilesUpTo(AggregateKinds, MaxAggregateLines)
    /\ printerDef = Def(UnitTests, "after_first_appear", "after_first_appear", <<LA>>, <<LM>>, "empty")
    /\ config = [Printer |-> UnitTests, Iterations |-> 1]
    /\ positions = ZeroPositions
    /\ pc = "aggregate"
    /\ err = ""
    /\ outputCreated = FALSE
    /\ output = <<>>
    /\ iter = 0
    /\ SearchIdle
    /\ catalogReads = <<>>
    /\ files = {}
    /\ opens = 0

\* The aggregates join the positions record.
Aggregate ==
    /\ pc = "aggregate"
    /\ positions' = AggregateResult(AggregateScan(lines, 0, AggregateStart)) @@ positions
    /\ pc' = "aggregated"
    /\ UNCHANGED <<lines, config, printerDef, err, outputCreated, output, iter>>
    /\ UNCHANGED opens
    /\ UNCHANGED searchVars

SpecAggregate == InitAggregate /\ [][Aggregate]_vars

-----------------------------------------------------------------------------
(* Construction of a processor (NewStreamingProcessor) from a request, and *)
(* the transformation that follows.  A TOML text is held as what it        *)
(* declares; the catalog is the embedded printers/*.toml file set.         *)

Uppers == <<"A", "B", "C", "D", "E", "F", "G", "H", "I", "J", "K", "L", "M", "N", "O", "P", "Q", "R", "S", "T", "U", "V", "W", "X", "Y", "Z">>

Lowers == <<"a", "b", "c", "d", "e", "f", "g", "h", "i", "j", "k", "l", "m", "n", "o", "p", "q", "r", "s", "t", "u", "v", "w", "x", "y", "z">>

IsUpper(c) == \E k \in 1..Len(Uppers) : Uppers[k] = c

IsLower(c) == \E k \in 1..Len(Lowers) : Lowers[k] = c

\* strings.ToLower, on the ASCII letters.
ToLower(s) ==
    [k \in 1..Len(s) |->
        IF IsUpper(s[k]) THEN Lowers[CHOOSE j \in 1..Len(Uppers) : Uppers[j] = s[k]]
        ELSE s[k]]

\* strings.Replace(s, " ", "-", -1).
SpacesToDashes(s) == [k \in 1..Len(s) |-> IF s[k] = " " THEN "-" ELSE s[k]]

isValidPrinterNameLoose(name) == TRUE

isValidPrinterName(name) ==
    /\ Len(name) # 0
    /\ \A k \in 1..Len(name) : IsLower(name[k]) \/ IsUpper(name[k]) \/ IsDigit(name[k]) \/ name[k] = "-"

\* A TOML text: whether it is the empty string, whether it parses, and the keys
\* it declares (an absent key is the zero value of its Go type).
Toml(parses, name, init, print, is, ps, code, assertions) ==
    [empty |-> FALSE, parses |-> parses, Name |-> name,
     EndInitSection |-> init, EndPrintSection |-> print,
     EndInitSectionStrategy |-> is, EndPrintSectionStrategy |-> ps,
     Code |-> code, Assertions |-> assertions]

EmptyText == [Toml(FALSE, <<>>, <<>>, <<>>, "", "", "", {}) EXCEPT !.empty = TRUE]

\* toml.Unmarshal into a PrinterDefinition: the keys the struct has fields for.
Unmarshal(text) ==
    [ok |-> text.parses,
     def |-> Def(text.Name, text.EndInitSectionStrategy, text.EndPrintSectionStrategy,
                 text.EndInitSection, text.EndPrintSection, text.Code)]

CustomPrefix == <<"C", "u", "s", "t", "o", "m", "-">>

Loaded(e, def) == [err |-> e, def |-> def]

ZeroDef == Def(<<>>, "", "", <<>>, <<>>, "")

parseCustomTemplate(customTemplate, printerName) ==
    LET u == Unmarshal(customTemplate)
    IN  IF ~u.ok THEN Loaded("failed to parse custom template TOML", ZeroDef)
        ELSE IF Len(u.def.EndInitSection) = 0
        THEN Loaded("custom template missing EndInitSection markers", ZeroDef)
        ELSE IF Len(u.def.EndPrintSection) = 0
        THEN Loaded("custom template missing EndPrintSection markers", ZeroDef)
        ELSE IF u.def.EndInitSectionStrategy = ""
        THEN Loaded("custom template missing EndInitSectionStrategy", ZeroDef)
        ELSE IF u.def.EndPrintSectionStrategy = ""
        THEN Loaded("custom template missing EndPrintSectionStrategy", ZeroDef)
        ELSE IF u.def.Template = ""
        THEN Loaded("custom template missing Template.Code", ZeroDef)
        ELSE Loaded("", [u.def EXCEPT !.Name = IF u.def.Name = <<>>
                                                 THEN CustomPrefix \o printerName
                                                 ELSE u.def.Name])

FileName(printerName) ==
    <<"p", "r", "i", "n", "t", "e", "r", "s", "/">> \o printerName \o <<".", "t", "o", "m", "l">>

\* The embedded file set: complete definitions, definitions that lack a key,
\* and a file that is not TOML.
Catalog ==
    (FileName(E3) :> Toml(TRUE, E3, <<LA>>, <<LM>>, "after_first_appear", "after_first_appear", "banner", {}))
    @@ (FileName(UnitTests) :> Toml(TRUE, UnitTests, <<LA>>, <<LM>>, "after_first_appear", "after_last_appear", "empty", {}))
    @@ (FileName(<<"e", "e">>) :> Toml(TRUE, <<"e", "e">>, <<>>, <<LM>>, "after_first_appear", "after_first_appear", "banner", {}))
    @@ (FileName(<<"3", "3">>) :> Toml(TRUE, <<"3", "3">>, <<LA>>, <<>>, "after_first_appear", "after_first_appear", "banner", {}))
    @@ (FileName(<<"3", "e">>) :> Toml(TRUE, <<"3", "e">>, <<LA>>, <<LM>>, "", "after_first_appear", "banner", {}))
    @@ (FileName(<<"e", "-">>) :> Toml(TRUE, <<"e", "-">>, <<LA>>, <<LM>>, "after_first_appear", "", "banner", {}))
    @@ (FileName(<<"-", "e">>) :> Toml(TRUE, <<"-", "e">>, <<LA>>, <<LM>>, "after_first_appear", "after_first_appear", "", {}))
    @@ (FileName(<<"3", "-">>) :> Toml(FALSE, <<>>, <<>>, <<>>, "", "", "", {}))
    @@ (FileName(<<"-", "3">>) :> Toml(TRUE, <<"-", "3">>, <<LA>>, <<LM>>, "after_first_appear", "after_first_appear", "unparsable", {}))

loadPrinterDefinition(printerName) ==
    IF FileName(printerName) \notin DOMAIN Catalog THEN Loaded("file does not exist", ZeroDef)
    ELSE LET u == Unmarshal(Catalog[FileName(printerName)])
         IN  IF ~u.ok THEN Loaded("toml: cannot unmarshal", u.def) ELSE Loaded("", u.def)

CreateSearchStrategy(strategyName) == strategyName \in Strategies

\* template.Parse: which template codes parse.
Parses(templateCode) == templateCode # "unparsable"

Constructed(e, def, reads) == [err |-> e, def |-> def, reads |-> reads]

\* Lines 148-180: from the loaded definition to the processor.
Construct(def, reads) ==
    IF ~CreateSearchStrategy(def.EndInitSectionStrategy)
    THEN Constructed("failed to create init section strategy", ZeroDef, reads)
    ELSE IF ~CreateSearchStrategy(def.EndPrintSectionStrategy)
    THEN Constructed("failed to create print section strategy", ZeroDef, reads)
    ELSE IF ~Parses(def.Template)
    THEN Constructed("failed to parse template", ZeroDef, reads)
    ELSE Constructed("", def, reads)

\* The error of parseCustomTemplate is wrapped ("failed to parse custom
\* template: %w"): the text that tells the errors apart is kept.
FromCustom(loaded) ==
    IF loaded.err # "" THEN Constructed(loaded.err, ZeroDef, <<>>)
    ELSE Construct(loaded.def, <<>>)

FromCatalog(printerName, loaded) ==
    IF loaded.err # ""
    THEN Constructed("failed to load printer definition", ZeroDef, <<FileName(printerName)>>)
    ELSE Construct(loaded.def, <<FileName(printerName)>>)

FromName(printerName) ==
    IF ~isValidPrinterName(printerName) THEN Constructed("invalid printer name", ZeroDef, <<>>)
    ELSE FromCatalog(printerName, loadPrinterDefinition(printerName))

\* The error ("" when none), the definition of the processor and the catalog
\* files read.
NewStreamingProcessor(cfg) ==
    IF ~cfg.CustomTemplate.empty
    THEN FromCustom(parseCustomTemplate(cfg.CustomTemplate, cfg.Printer))
    ELSE FromName(ToLower(SpacesToDashes(cfg.Printer)))

NameChars == {"E", "e", "3", " ", "-", "/"}

PrinterNames == FilesUpTo(NameChars, MaxNameLen) \cup {UnitTests}

GXZ == <<"G", "1", " ", "X", "1", " ", "Z", "9", " ", "E", "1">>

RequestFiles == {<<LA, GXZ, LM>>, <<LA, LM>>, <<LA, GXZ, LM, LX>>, <<GXZ, LM>>}

\* [Assertions] LastPrintZ = [0.0, 5.0], in tenths.
ZAtMostFive == {[field |-> "LastPrintZ", min |-> 0, max |-> 50]}

ZAtMostTen == {[field |-> "LastPrintZ", min |-> 0, max |-> 100]}

CustomTemplates ==
    { EmptyText,
      Toml(TRUE, <<>>, <<LA>>, <<LM>>, "after_first_appear", "after_last_appear", "oneline", ZAtMostFive),
      Toml(TRUE, E3, <<LA>>, <<LM>>, "after_last_appear", "before_first_appear", "gap", ZAtMostTen),
      Toml(TRUE, E3, <<>>, <<LM>>, "after_first_appear", "after_first_appear", "banner", {}),
      Toml(TRUE, E3, <<LA>>, <<>>, "after_first_appear", "after_first_appear", "banner", {}),
      Toml(TRUE, E3, <<LA>>, <<LM>>, "", "after_first_appear", "banner", {}),
      Toml(TRUE, E3, <<LA>>, <<LM>>, "after_first_appear", "", "banner", {}),
      Toml(TRUE, E3, <<LA>>, <<LM>>, "after_first_appear", "after_first_appear", "", {}),
      Toml(TRUE, E3, <<LA>>, <<LM>>, "nearest", "after_first_appear", "banner", {}),
      Toml(FALSE, <<>>, <<>>, <<>>, "", "", "", {}) }

InitRequest ==
    /\ lines \in RequestFiles
    /\ config \in [Printer : PrinterNames, CustomTemplate : CustomTemplates,
                   Iterations : 1..MaxIterations]
    /\ printerDef = ZeroDef
    /\ pc = "new"
    /\ err = ""
    /\ positions = ZeroPositions
    /\ outputCreated = FALSE
    /\ output = <<>>
    /\ iter = 0
    /\ SearchIdle
    /\ catalogReads = <<>>
    /\ files = {}
    /\ opens = 0

\* NewStreamingProcessor, then ProcessFile on the processor it returned.
NewProcessor ==
    /\ pc = "new"
    /\ LET r == NewStreamingProcessor(config)
       IN  /\ catalogReads' = catalogReads \o r.reads
           /\ IF r.err # "" THEN Fail(r.err) /\ printerDef' = printerDef
              ELSE pc' = "validateInput" /\ err' = err /\ printerDef' = r.def
    /\ UNCHANGED <<lines, config, positions, outputCreated, output, iter>>
    /\ UNCHANGED <<markers, searchFromLine, searchOp, res, base, inserted, opens, files>>

NextRequest == NewProcessor \/ Next

SpecRequest == InitRequest /\ [][NextRequest]_vars

-----------------------------------------------------------------------------
(* findMarkerPositions up to its order check, on files whose lines may     *)
(* carry the init marker and the print marker at once.                     *)

OrderKinds == {LA, LM, LAM, LX}

OrderMarkers == {<<<<LA>>, <<LM>>>>, <<<<LA>>, <<LA>>>>, <<<<LA, LM>>, <<LM>>>>, <<<<LM>>, <<LA, LM>>>>}

OrderDefs ==
    { Def(UnitTests, i, p, m[1], m[2], "empty") : i \in Strategies, p \in Strategies, m \in OrderMarkers }

InitOrder ==
    /\ lines \in FilesUpTo(OrderKinds, MaxSearchLines)
    /\ printerDef \in OrderDefs
    /\ config = [Printer |-> printerDef.Name, Iterations |-> 1]
    /\ pc = "findInit"
    /\ err = ""
    /\ positions = ZeroPositions
    /\ outputCreated = FALSE
    /\ output = <<>>
    /\ iter = 0
    /\ SearchIdle
    /\ catalogReads = <<>>
    /\ files = {}
    /\ opens = 0

NextOrder == FindInit \/ FindPrint \/ CheckOrder

SpecOrder == InitOrder /\ [][NextOrder]_vars

-----------------------------------------------------------------------------
(* The two readers of the catalog: NewStreamingProcessor for an upload and *)
(* TemplateHandler for GET /template?printer=...; output holds the status  *)
(* TemplateHandler answered with.                                          *)

Status(loaded) == IF loaded.err # "" THEN <<"404">> ELSE <<"200">>

\* processor.LoadPrinterDefinitionPublic(printerName) and the answer.
TemplateLoaded(printerName) ==
    /\ catalogReads' = Append(catalogReads, FileName(printerName))
    /\ output' = Status(loadPrinterDefinition(printerName))

TemplateHandler ==
    /\ output = <<>>
    /\ \E printerName \in PrinterNames :
           IF printerName = <<>>
           THEN output' = <<"400">> /\ catalogReads' = catalogReads
           ELSE TemplateLoaded(ToLower(SpacesToDashes(printerName)))
    /\ UNCHANGED <<lines, config, printerDef, pc, err, positions, outputCreated, iter, opens>>
    /\ UNCHANGED <<markers, searchFromLine, searchOp, res, base, inserted, files>>

InitCatalog ==
    /\ lines = <<LA, GXZ, LM>>
    /\ config \in [Printer : PrinterNames, CustomTemplate : {EmptyText}, Iterations : {1}]
    /\ printerDef = ZeroDef
    /\ pc = "new"
    /\ err = ""
    /\ positions = ZeroPositions
    /\ outputCreated = FALSE
    /\ output = <<>>
    /\ iter = 0
    /\ SearchIdle
    /\ catalogReads = <<>>
    /\ opens = 0
    /\ files = {}

NextCatalog == TemplateHandler \/ NewProcessor

SpecCatalog == InitCatalog /\ [][NextCatalog]_vars

-----------------------------------------------------------------------------
(* Two transformations at once: each has its own processor (definition,    *)
(* request, positions, iteration counter), its own input file and its own  *)
(* output file; their steps interleave.  The variables hold one value per  *)
(* transformation.                                                         *)

Procs == {1, 2}

ProcFail(s, e) == [s EXCEPT !.pc = "failed", !.err = e]

ProcValidated(s, e) == IF e # "" THEN ProcFail(s, e) ELSE [s EXCEPT !.pc = "findInit"]

ProcOpened(s, n) == [s EXCEPT !.opens = s.opens + n]

ProcFoundInit(s, r) ==
    IF ~r.ok THEN ProcFail(s, "marker not found")
    ELSE [s EXCEPT !.pc = "findPrint",
                   !.positions = [s.positions EXCEPT !.EndInitSectionFirstLine = r.first,
                                                     !.EndInitSectionLastLine = r.last]]

ProcFoundPrint(s, r) ==
    IF ~r.ok THEN ProcFail(s, "marker not found")
    ELSE [s EXCEPT !.pc = "checkOrder",
                   !.positions = [s.positions EXCEPT !.EndPrintSectionFirstLine = r.first,
                                                     !.EndPrintSectionLastLine = r.last]]

ProcCheckedOrder(s) ==
    IF s.positions.EndInitSectionLastLine >= s.positions.EndPrintSectionFirstLine
    THEN ProcFail(s, "invalid marker positions")
    ELSE [s EXCEPT !.pc = "extract"]

ProcExtracted(s, c) ==
    IF c.failed THEN ProcFail(s, "no print commands found")
    ELSE [s EXCEPT !.pc = "create",
                   !.positions = [s.positions EXCEPT
                                     !.FirstPrintX = c.FirstPrintX, !.FirstPrintY = c.FirstPrintY,
                                     !.FirstPrintZ = c.FirstPrintZ, !.LastPrintX = c.LastPrintX,
                                     !.LastPrintY = c.LastPrintY, !.LastPrintZ = c.LastPrintZ]]

ProcLoopTarget(s, n) == IF n < s.cfg.Iterations THEN "body" ELSE "footer"

ProcHeader(s) ==
    [s EXCEPT !.output = s.output \o streamLinesRange(s.lines, 0, s.positions.EndInitSectionLastLine,
                                                      TRUE, s.def.EndInitSection),
              !.iter = 0, !.pc = ProcLoopTarget(s, 0)]

ProcBody(s) ==
    [s EXCEPT !.output = IF s.positions.EndInitSectionLastLine + 1 < s.positions.EndPrintSectionFirstLine
                         THEN s.output \o streamLinesRange(s.lines, s.positions.EndInitSectionLastLine + 1,
                                                           s.positions.EndPrintSectionFirstLine - 1,
                                                           FALSE, s.def.EndInitSection)
                         ELSE s.output,
              !.pc = "endMarker"]

ProcEndMarker(s) ==
    [s EXCEPT !.output = s.output \o streamLinesRange(s.lines, s.positions.EndPrintSectionFirstLine,
                                                      s.positions.EndPrintSectionLastLine,
                                                      FALSE, s.def.EndInitSection),
              !.pc = "generated"]

ProcGenerated(s, g) ==
    IF ~g.ok THEN ProcFail(s, "failed to execute template")
    ELSE [s EXCEPT !.output = s.output \o g.written, !.iter = s.iter + 1,
                   !.pc = ProcLoopTarget(s, s.iter + 1)]

ProcFooter(s) ==
    [s EXCEPT !.output = s.output \o streamLinesFromPosition(s.lines, s.positions.EndPrintSectionLastLine + 1),
              !.pc = "done"]

\* One step of ProcessFile on the processor state s.
ProcStep(s) ==
    CASE s.pc = "validateInput" -> ProcValidated(s, validateInput(s.def, s.cfg))
      [] s.pc = "findInit" ->
            ProcFoundInit(ProcOpened(s, 1), FindInitSectionPosition(s.def.EndInitSectionStrategy, s.lines,
                                                     s.def.EndInitSection))
      [] s.pc = "findPrint" ->
            ProcFoundPrint(ProcOpened(s, 1), FindPrintSectionPosition(s.def.EndPrintSectionStrategy, s.lines,
                                                       s.def.EndPrintSection,
                                                       s.positions.EndInitSectionLastLine))
      [] s.pc = "checkOrder" -> ProcCheckedOrder(s)
      [] s.pc = "extract" ->
            ProcExtracted(ProcOpened(s, 1), extractGCodeCoordinates(s.lines, s.positions.EndInitSectionLastLine,
                                                     s.cfg.Printer))
      [] s.pc = "create" -> [s EXCEPT !.outputCreated = TRUE, !.output = <<>>, !.pc = "header"]
      [] s.pc = "header" -> ProcHeader(ProcOpened(s, 1))
      [] s.pc = "body" ->
            ProcBody(ProcOpened(s, IF s.positions.EndInitSectionLastLine + 1
                                         < s.positions.EndPrintSectionFirstLine THEN 1 ELSE 0))
      [] s.pc = "endMarker" -> ProcEndMarker(ProcOpened(s, 1))
      [] s.pc = "generated" ->
            ProcGenerated(s, streamGeneratedContent(s.def, s.cfg, s.positions, s.iter + 1))
      [] s.pc = "footer" -> ProcFooter(ProcOpened(s, 1))

PositionsOfFirst(p) == positions[1]

\* p.positions: a field of the processor of transformation p.
PositionsOf(p) == positions[p]

\* The processor, the input file and the output file of transformation p.
ProcState(p) ==
    [lines |-> lines[p], def |-> printerDef[p], cfg |-> config[p], pc |-> pc[p],
     err |-> err[p], positions |-> PositionsOf(p), outputCreated |-> outputCreated[p],
     output |-> output[p], iter |-> iter[p], opens |-> opens[p]]

ParallelDefs ==
    { Def(E3, "after_first_appear", "after_first_appear", <<LA>>, <<LM>>, "banner"),
      Def(UnitTests, "after_first_appear", "after_last_appear", <<LA>>, <<LM>>, "oneline"),
      Def(E3, "after_last_appear", "before_first_appear", <<LsA>>, <<LM>>, "badfield") }

ParallelFiles == {<<LA, GXZ, LM>>, <<LA, LG, LM, LX>>, <<LX, LM>>}

InitParallel ==
    /\ lines \in [Procs -> ParallelFiles]
    /\ printerDef \in [Procs -> ParallelDefs]
    /\ config \in { [p \in Procs |-> [Printer |-> printerDef[p].Name, Iterations |-> n[p]]] :
                        n \in [Procs -> 1..MaxIterations] }
    /\ pc = [p \in Procs |-> "validateInput"]
    /\ err = [p \in Procs |-> ""]
    /\ positions = [p \in Procs |-> ZeroPositions]
    /\ outputCreated = [p \in Procs |-> FALSE]
    /\ output = [p \in Procs |-> <<>>]
    /\ iter = [p \in Procs |-> 0]
    /\ SearchIdle
    /\ catalogReads = <<>>
    /\ files = {}
    /\ opens = [p \in Procs |-> 0]

Stepped(p, n) ==
    /\ pc' = [pc EXCEPT ![p] = n.pc]
    /\ err' = [err EXCEPT ![p] = n.err]
    /\ positions' = [positions EXCEPT ![p] = n.positions]
    /\ outputCreated' = [outputCreated EXCEPT ![p] = n.outputCreated]
    /\ output' = [output EXCEPT ![p] = n.output]
    /\ iter' = [iter EXCEPT ![p] = n.iter]
    /\ opens' = [opens EXCEPT ![p] = n.opens]

\* Transformation p takes its next step.
Transform(p) ==
    /\ pc[p] \notin {"done", "failed"}
    /\ Stepped(p, ProcStep(ProcState(p)))
    /\ UNCHANGED <<lines, config, printerDef>>
    /\ UNCHANGED searchVars

NextParallel == \E p \in Procs : Transform(p)

SpecParallel == InitParallel /\ [][NextParallel]_vars

-----------------------------------------------------------------------------
(* Upload requests (handlers.go): each one stages the uploaded file under  *)
(* files/uploads, transforms it into files/results, sends the result and   *)
(* removes both files.  The variables hold one value per request.          *)

Requests == {1, 2}

ClientNames == {"a.gcode", "b.gcode"}

UploadedFiles == {<<LA, LG, LM>>, <<LA, LG, LM, LX>>, <<LX, LM>>}

UploadDef == Def(E3, "after_first_appear", "after_first_appear", <<LA>>, <<LM>>, "banner")

UploadPath(name) == <<"files/uploads", name>>

ResultPath(name) == <<"files/results", name>>

Exists(path) == \E f \in files : f[1] = path

Content(path) == (CHOOSE f \in files : f[1] = path)[2]

\* os.Remove(path).
Removed(fs, path) == {f \in fs : f[1] # path}

\* os.Create(path) and the writes that follow: the file holds ls afterwards.
Written(fs, path, ls) == Removed(fs, path) \cup {<<path, ls>>}

\* ProcessFile run to its end on the processor state s.
RECURSIVE RunToEnd(_)
RunToEnd(s) == IF s.pc \in {"done", "failed"} THEN s ELSE RunToEnd(ProcStep(s))

ProcessorFor(r, ls) ==
    [lines |-> ls, def |-> printerDef[r], cfg |-> [Printer |-> config[r].Printer, Iterations |-> config[r].Iterations],
     pc |-> "validateInput", err |-> "", positions |-> ZeroPositions, outputCreated |-> FALSE,
     output |-> <<>>, iter |-> 0, opens |-> 0]

\* The seconds already stamped on a request: time.Now().Unix() never goes back.
Stamped == {config[r].FileName[1] : r \in {q \in Requests : pc[q] # "receive"}}

InitUpload ==
    /\ lines \in [Requests -> UploadedFiles]
    /\ printerDef = [r \in Requests |-> UploadDef]
    /\ config \in [Requests -> [Printer : {UploadDef.Name}, Iterations : 0..1, FileName : {<<0, "">>}]]
    /\ pc = [r \in Requests |-> "receive"]
    /\ err = [r \in Requests |-> ""]
    /\ positions = [r \in Requests |-> ZeroPositions]
    /\ outputCreated = [r \in Requests |-> FALSE]
    /\ output = [r \in Requests |-> <<>>]
    /\ iter = [r \in Requests |-> 0]
    /\ SearchIdle
    /\ catalogReads = <<>>
    /\ opens = [r \in Requests |-> 0]
    /\ files = {}

\* receiveRequest: the form values, then the upload saved under
\* files/uploads/<seconds>_<client file name>.
Receive(r) ==
    /\ pc[r] = "receive"
    /\ IF config[r].Iterations <= 0
       THEN /\ pc' = [pc EXCEPT ![r] = "done"]
            /\ err' = [err EXCEPT ![r] = "invalid iterations value"]
            /\ UNCHANGED <<config, files>>
       ELSE \E t \in 1..MaxSeconds, name \in ClientNames :
                /\ \A u \in Stamped : u <= t
                /\ config' = [config EXCEPT ![r].FileName = <<t, name>>]
                /\ files' = Written(files, UploadPath(<<t, name>>), lines[r])
                /\ pc' = [pc EXCEPT ![r] = "process"]
                /\ err' = err
    /\ UNCHANGED <<lines, printerDef, positions, outputCreated, output, iter, opens>>
    /\ UNCHANGED <<markers, searchFromLine, searchOp, res, base, inserted, catalogReads>>

Processed(r, s) ==
    /\ positions' = [positions EXCEPT ![r] = s.positions]
    /\ outputCreated' = [outputCreated EXCEPT ![r] = s.outputCreated]
    /\ opens' = [opens EXCEPT ![r] = s.opens]
    /\ iter' = [iter EXCEPT ![r] = s.iter]
    /\ err' = [err EXCEPT ![r] = s.err]
    /\ files' = IF s.outputCreated THEN Written(files, ResultPath(config[r].FileName), s.output) ELSE files
    /\ pc' = [pc EXCEPT ![r] = IF s.err # "" THEN "cleanup" ELSE "respond"]

\* UploadHandler: processor.ProcessFile(inFileName, outFileName, req).
Process(r) ==
    /\ pc[r] = "process"
    /\ IF Exists(UploadPath(config[r].FileName))
       THEN Processed(r, RunToEnd(ProcessorFor(r, Content(UploadPath(config[r].FileName)))))
       ELSE /\ err' = [err EXCEPT ![r] = "no such file"]
            /\ pc' = [pc EXCEPT ![r] = "cleanup"]
            /\ UNCHANGED <<positions, outputCreated, opens, iter, files>>
    /\ UNCHANGED <<lines, printerDef, config, output>>
    /\ UNCHANGED <<markers, searchFromLine, searchOp, res, base, inserted, catalogReads>>

\* sendResponse: the result file is copied to the client.
Respond(r) ==
    /\ pc[r] = "respond"
    /\ IF Exists(ResultPath(config[r].FileName))
       THEN /\ output' = [output EXCEPT ![r] = Content(ResultPath(config[r].FileName))]
            /\ err' = err
       ELSE /\ err' = [err EXCEPT ![r] = "failed to stat result file"]
            /\ output' = output
    /\ pc' = [pc EXCEPT ![r] = "cleanup"]
    /\ UNCHANGED <<lines, printerDef, config, positions, outputCreated, iter, opens, files>>
    /\ UNCHANGED <<markers, searchFromLine, searchOp, res, base, inserted, catalogReads>>

\* The deferred os.Remove(outFileName) and os.Remove(inFileName).
Cleanup(r) ==
    /\ pc[r] = "cleanup"
    /\ files' = Removed(Removed(files, ResultPath(config[r].FileName)), UploadPath(config[r].FileName))
    /\ pc' = [pc EXCEPT ![r] = "done"]
    /\ UNCHANGED <<lines, printerDef, config, err, positions, outputCreated, output, iter, opens>>
    /\ UNCHANGED <<markers, searchFromLine, searchOp, res, base, inserted, catalogReads>>

NextUpload == \E r \in Requests : Receive(r) \/ Process(r) \/ Respond(r) \/ Cleanup(r)

SpecUpload == InitUpload /\ [][NextUpload]_vars

-----------------------------------------------------------------------------
(* The ranges of the input that a located pair of markers delimits.        *)

initFirst == positions.EndInitSectionFirstLine
initLast == positions.EndInitSectionLastLine
printFirst == positions.EndPrintSectionFirstLine
printLast == positions.EndPrintSectionLastLine

HeaderLines == SubSeq(lines, 1, initLast + 1)
BodyLines == SubSeq(lines, initLast + 2, printFirst)
EndMarkerLines == SubSeq(lines, printFirst + 1, printLast + 1)
FooterLines == SubSeq(lines, printLast + 2, Len(lines))

\* The lines the template contributes in iteration n.
Rendered(n) == streamGeneratedContent(printerDef, config, positions, n).written

RECURSIVE Flatten(_)
Flatten(seqs) == IF seqs = <<>> THEN <<>> ELSE Head(seqs) \o Flatten(Tail(seqs))

RECURSIVE Repeated(_)
Repeated(n) ==
    IF n = 0 THEN <<>>
    ELSE Repeated(n - 1) \o BodyLines \o EndMarkerLines \o Rendered(n)

RECURSIVE RenderedCount(_)
RenderedCount(n) == IF n = 0 THEN 0 ELSE RenderedCount(n - 1) + Len(Rendered(n))

\* The header as emitted: each line through the marker-comment split.
EmittedHeader ==
    Flatten([k \in 1..Len(HeaderLines) |->
                processLineWithMarkerSplit(HeaderLines[k], printerDef.EndInitSection)])

PositionsReady == pc \in {"create", "header", "body", "endMarker", "generated", "footer", "done"}

\* C1: a finished transformation has written the header, then Iterations times
\* the body, the end-marker range and the lines rendered for that iteration,
\* then the footer; everything but the header is copied unmodified.
C1_OutputLayout ==
    pc = "done" => output = EmittedHeader \o Repeated(config.Iterations) \o FooterLines

C1_Witness ==
    /\ pc = "done"
    /\ config.Iterations = 2
    /\ BodyLines # <<>>
    /\ FooterLines # <<>>
    /\ Len(Rendered(1)) = 2
    /\ Len(output) > Len(lines)

\* C4: a located pair of markers is ordered: the init range is a range, it ends
\* strictly before the print-end range begins, and that one is a range too.
C4_PositionsOrdered ==
    PositionsReady => initFirst <= initLast /\ initLast < printFirst /\ printFirst <= printLast

C4_Witness ==
    /\ PositionsReady
    /\ initFirst < initLast
    /\ printFirst < printLast

\* A header line the marker-comment split turns into two lines: it contains a
\* trimmed init-marker entry and a semicolon with text before it.
HasMarker(line, mks) == \E m \in 1..Len(mks) : Contains(line, TrimSpace(mks[m]))

BeforeSemicolon(line) == TrimSpace(SubSeq(line, 1, Index(line, ";")))

FromSemicolon(line) == TrimSpace(SubSeq(line, Index(line, ";") + 1, Len(line)))

IsSplit(line, mks) ==
    HasMarker(line, mks) /\ Contains(line, <<";">>) /\ BeforeSemicolon(line) # <<>>

SplitCount == Cardinality({k \in 1..Len(HeaderLines) :
                              IsSplit(HeaderLines[k], printerDef.EndInitSection)})

\* C2 as stated: the output has H + Iterations * (B + M + T) + F lines, H, B, M
\* and F being the numbers of input lines in the four ranges and T the lines
\* the template emits (summed over the iterations).
C2_LineCountAsStated ==
    pc = "done" =>
        Len(output) = (initLast + 1)
                      + config.Iterations * ((printFirst - initLast - 1)
                                             + (printLast - printFirst + 1))
                      + RenderedCount(config.Iterations)
                      + (Len(lines) - printLast - 1)

\* C2, amended: the output has H + S + Iterations * (B + M) + T1 + ... + TN + F
\* lines, S being the number of header lines the marker-comment split turns
\* into two and Ti the number of lines the template emits in iteration i.
C2_LineCount ==
    pc = "done" =>
        Len(output) = (initLast + 1) + SplitCount
                      + config.Iterations * ((printFirst - initLast - 1)
                                             + (printLast - printFirst + 1))
                      + RenderedCount(config.Iterations)
                      + (Len(lines) - printLast - 1)

C2_Witness ==
    /\ pc = "done"
    /\ SplitCount > 0
    /\ config.Iterations = 2
    /\ Len(Rendered(1)) # Len(Rendered(2))
    /\ printFirst > initLast + 1
    /\ Len(lines) > printLast + 1

RendersEmpty == Execute(printerDef.Template, [PrinterName |-> printerDef.Name, Iteration |-> 1, Request |-> config, Positions |-> positions]).text = <<>>

ValidationErrors ==
    {"EndInitSection marker cannot be empty", "EndPrintSection marker cannot be empty",
     "iterations must be positive",
     "EndInitSection marker line contains EndPrintSection marker"}

Rejected ==
    \/ printerDef.EndInitSection = <<>>
    \/ printerDef.EndPrintSection = <<>>
    \/ config.Iterations <= 0
    \/ \E a \in 1..Len(printerDef.EndInitSection) :
          \E b \in 1..Len(printerDef.EndPrintSection) :
             Contains(printerDef.EndInitSection[a], printerDef.EndPrintSection[b])

\* C9: validation fails exactly when a marker sequence is empty, Iterations is
\* not positive or an init-marker line contains a print-marker line; it fails
\* before any marker is located and before the output is created.
C9_Validation ==
    pc # "validateInput" =>
        /\ (err \in ValidationErrors) <=> Rejected
        /\ (err \in ValidationErrors) =>
               pc = "failed" /\ ~outputCreated /\ output = <<>> /\ positions = ZeroPositions

C9_Witness ==
    /\ pc = "failed"
    /\ err = "iterations must be positive"
    /\ config.Iterations = 0
    /\ lines # <<>>

JustAfterHeader == pc = "body" /\ iter = 0

JustAfterFirstBody == pc = "endMarker" /\ iter = 0

HeaderAsStated ==
    Flatten([k \in 1..Len(HeaderLines) |->
                IF (\E m \in 1..Len(printerDef.EndInitSection) :
                        Contains(HeaderLines[k], printerDef.EndInitSection[m]))
                   /\ Contains(HeaderLines[k], <<";">>)
                THEN <<BeforeSemicolon(HeaderLines[k]), FromSemicolon(HeaderLines[k])>>
                ELSE <<HeaderLines[k]>>])

HeaderAmended ==
    Flatten([k \in 1..Len(HeaderLines) |->
                IF IsSplit(HeaderLines[k], printerDef.EndInitSection)
                THEN <<BeforeSemicolon(HeaderLines[k]), FromSemicolon(HeaderLines[k])>>
                ELSE <<HeaderLines[k]>>])

\* C10 as stated: every header line that contains an init-marker entry and a
\* semicolon is written as two lines, the trimmed text before the first
\* semicolon and the trimmed text from it on; every other header line is
\* written unchanged; body lines are not split.
C10_SplitAsStated ==
    /\ JustAfterHeader => output = HeaderAsStated
    /\ JustAfterFirstBody => output = HeaderAsStated \o BodyLines

\* C10, amended: a header line is written as those two lines when it contains
\* the trimmed text of an init-marker entry and a semicolon with text other
\* than blanks before it; every other header line, so one that starts with
\* its semicolon, is written unchanged; body, end-marker and footer lines are
\* not split.
C10_Split ==
    /\ JustAfterHeader => output = HeaderAmended
    /\ JustAfterFirstBody => output = HeaderAmended \o BodyLines
    /\ pc = "done" =>
          SubSeq(output, Len(HeaderAmended) + 1, Len(output))
              = Repeated(config.Iterations) \o FooterLines

C10_Witness ==
    /\ JustAfterFirstBody
    /\ \E k \in 1..Len(HeaderLines) : HeaderLines[k] = LAc
    /\ \E k \in 1..Len(BodyLines) : BodyLines[k] = LAc
    /\ Len(output) = Len(HeaderLines) + 1 + Len(BodyLines)

-----------------------------------------------------------------------------
(* What a search is to return, stated on the file alone.                   *)

Skippable(line) == TrimSpace(line) = <<>> \/ HasPrefix(TrimSpace(line), <<";">>)

Matches(line, marker) == Contains(TrimSpace(line), TrimSpace(marker))

\* The lines where entry k of mks can stand when the entry before it stands on
\* line prev: the first line after prev that holds entry k, provided every line
\* passed over on the way is skippable.
NextEntry(ls, mks, k, prev) ==
    { q \in (prev + 1)..(Len(ls) - 1) :
          /\ Matches(ls[q + 1], mks[k])
          /\ \A j \in (prev + 1)..(q - 1) :
                 Skippable(ls[j + 1]) /\ ~Matches(ls[j + 1], mks[k]) }

\* The lines where the last entry can stand when entry k - 1 stands on line prev.
RECURSIVE LastEntry(_, _, _, _)
LastEntry(ls, mks, k, prev) ==
    IF k > Len(mks) THEN {prev}
    ELSE UNION { LastEntry(ls, mks, k + 1, q) : q \in NextEntry(ls, mks, k, prev) }

\* The complete matches of mks in ls, as pairs <<first line, last line>>: the
\* entries appear in order, on lines with nothing but skippable lines between.
CompleteMatches(ls, mks) ==
    UNION { { <<f, l>> : l \in LastEntry(ls, mks, 2, f) } :
                f \in {g \in 0..(Len(ls) - 1) : Matches(ls[g + 1], mks[1])} }

MatchesAfter(from) == {m \in CompleteMatches(lines, markers) : m[1] > from}

Earliest(ms) == CHOOSE m \in ms : \A o \in ms : m[1] <= o[1]

Latest(ms) == CHOOSE m \in ms : \A o \in ms : m[1] >= o[1]

Returned == <<res.first, res.last>>

Searched == pc \in {"searched", "researched"}

\* C5: after_first_appear returns the earliest complete match: the init search
\* the complete match with the smallest first line in the whole file, the print
\* search the one with the smallest first line among those starting strictly
\* after searchFromLine, as the pair (line of the first matched entry, line of
\* the last matched entry).
C5_AfterFirstEarliest ==
    (Searched /\ searchOp \in {"after_first_appear.init", "after_first_appear.print"}
        /\ MatchesAfter(searchFromLine) # {})
        => (res.ok /\ Returned = Earliest(MatchesAfter(searchFromLine)))

\* C6: after_last_appear returns the latest complete match: the init search the
\* complete match with the greatest first line in the whole file, the print
\* search the one with the greatest first line among those starting strictly
\* after searchFromLine, as the pair (line of the first matched entry, line of
\* the last matched entry).
C6_AfterLastLatest ==
    (Searched /\ searchOp \in {"after_last_appear.init", "after_last_appear.print"}
        /\ MatchesAfter(searchFromLine) # {})
        => (res.ok /\ Returned = Latest(MatchesAfter(searchFromLine)))

C6_Witness ==
    /\ pc = "searched"
    /\ searchOp = "after_last_appear.print"
    /\ Len(markers) > 1
    /\ Cardinality(CompleteMatches(lines, markers)) > 1
    /\ \E m \in CompleteMatches(lines, markers) : m[1] <= searchFromLine
    /\ res.ok
    /\ res.first > searchFromLine + 1

\* C7: for a multi-entry marker sequence that matches, inserting any number of
\* skippable lines between the matched entries does not change the match any
\* strategy reports: the search still succeeds, with the same first matched
\* line and with the same last matched line, now further down by the number of
\* lines inserted.
C7_InsertionKeepsMatch ==
    pc = "researched"
        => (res.ok /\ res.first = base.first /\ res.last = base.last + inserted)

\* C8: a search fails when no complete match of the marker sequence starts
\* strictly after searchFromLine (anywhere in the file, for an init search),
\* whether or not one starts at or before it; a sequence interrupted by a line
\* that is neither skippable nor the next entry is no match.
C8_NotFound ==
    (Searched /\ MatchesAfter(searchFromLine) = {}) => ~res.ok

C8_Witness ==
    /\ pc = "searched"
    /\ searchOp \in PrintOps
    /\ Len(markers) > 1
    /\ \E m \in CompleteMatches(lines, markers) : m[1] <= searchFromLine
    /\ \E j \in (searchFromLine + 1)..(Len(lines) - 1) : Matches(lines[j + 1], markers[1])
    /\ ~res.ok

-----------------------------------------------------------------------------
(* What coordinate extraction is to return, stated on the file alone.      *)

IsG1(line) == HasPrefix(TrimSpace(line), <<"G", "1">>)

\* The value of a letter on a line, in tenths: 0 when the line does not carry it.
Carries(line, letter) == FindCoordinate(TrimSpace(line), letter).set

ValueOf(line, letter) == FindCoordinate(TrimSpace(line), letter).val

\* A qualifying print move: a G1 line with E present and positive and with X or Y.
QualifyingMove(line) ==
    /\ IsG1(line)
    /\ Carries(line, "E") /\ ValueOf(line, "E") > 0
    /\ Carries(line, "X") \/ Carries(line, "Y")

endInit == positions.EndInitSectionLastLine

Extracted == pc = "create"

\* Zero-based lines of the qualifying moves, all of them and those after the init section.
Moves == {i \in 0..(Len(lines) - 1) : QualifyingMove(lines[i + 1])}

MovesAfterInit == {i \in Moves : i > endInit}

Lowest(S) == CHOOSE i \in S : \A j \in S : i <= j

Highest(S) == CHOOSE i \in S : \A j \in S : i >= j

\* The value of letter on the last of the lines in S that carry it; 0 when none does.
LastValue(S, letter) ==
    LET carrying == {i \in S : Carries(lines[i + 1], letter)}
    IN  IF carrying = {} THEN 0 ELSE ValueOf(lines[Highest(carrying) + 1], letter)

\* The active Z at line i: the Z of the last G1 line up to i that carries one.
ActiveZ(i) ==
    LET carrying == {j \in 0..i : IsG1(lines[j + 1]) /\ Carries(lines[j + 1], "Z")}
    IN  IF carrying = {} THEN 0 ELSE ValueOf(lines[Highest(carrying) + 1], "Z")

\* C11: FirstPrintX and FirstPrintY come from the first qualifying print move
\* on a line after endInitSectionLastLine, X if it carries X and Y if it carries
\* Y; moves at or before the init marker never set them and no later line
\* overwrites them.
C11_FirstPrintXY ==
    Extracted =>
        IF MovesAfterInit = {}
        THEN positions.FirstPrintX = 0 /\ positions.FirstPrintY = 0
        ELSE /\ positions.FirstPrintX = ValueOf(lines[Lowest(MovesAfterInit) + 1], "X")
             /\ positions.FirstPrintY = ValueOf(lines[Lowest(MovesAfterInit) + 1], "Y")

C11_Witness ==
    /\ Extracted
    /\ \E i \in Moves : i <= endInit
    /\ MovesAfterInit # {}
    /\ \E j \in MovesAfterInit :
           /\ j > Lowest(MovesAfterInit)
           /\ ValueOf(lines[j + 1], "Y") # positions.FirstPrintY
    /\ positions.FirstPrintX # 0
    /\ positions.FirstPrintX # ValueOf(lines[Lowest(Moves) + 1], "X")

\* C12: LastPrintX (LastPrintY) is the X (Y) of the last qualifying print move
\* of the whole file that carries an X (a Y), each tracked on its own; G1 lines
\* with E absent, zero or negative, or with E but neither X nor Y, never change
\* them.
C12_LastPrintXY ==
    Extracted =>
        /\ positions.LastPrintX = LastValue(Moves, "X")
        /\ positions.LastPrintY = LastValue(Moves, "Y")

C12_Witness ==
    /\ Extracted
    /\ Moves # {}
    /\ Highest(Moves) < Len(lines) - 1
    /\ IsG1(lines[Len(lines)])
    /\ Carries(lines[Len(lines)], "X") \/ Carries(lines[Len(lines)], "Y")
    /\ ~Carries(lines[Highest(Moves) + 1], "X")
    /\ positions.LastPrintX # 0
    /\ positions.LastPrintY # 0

\* C13: FirstPrintZ and LastPrintZ are the active Z at the first qualifying
\* move after the init section and at the last qualifying move: the Z of the
\* most recent G1 line carrying one at or before that move, be it the move
\* itself or a line before the init marker; a Z after the last qualifying move
\* never changes LastPrintZ.
C13_PrintZ ==
    Extracted =>
        /\ positions.FirstPrintZ =
               IF MovesAfterInit = {} THEN 0 ELSE ActiveZ(Lowest(MovesAfterInit))
        /\ positions.LastPrintZ = IF Moves = {} THEN 0 ELSE ActiveZ(Highest(Moves))

C13_Witness ==
    /\ Extracted
    /\ MovesAfterInit # {}
    /\ positions.FirstPrintZ # 0
    /\ ~Carries(lines[Lowest(MovesAfterInit) + 1], "Z")
    /\ \E j \in (Highest(Moves) + 1)..(Len(lines) - 1) :
           /\ Carries(lines[j + 1], "Z")
           /\ ValueOf(lines[j + 1], "Z") # positions.LastPrintZ

\* C14: extraction fails with "no print commands found" exactly when no
\* qualifying print move stands on a line after endInitSectionLastLine and the
\* printer name does not contain "unit-tests"; with "unit-tests" in the name it
\* succeeds there, the unset coordinates being 0.
C14_NoPrintCommands ==
    pc \in {"create", "failed"} =>
        /\ (pc = "failed") <=>
               (MovesAfterInit = {} /\ ~Contains(config.Printer, UnitTests))
        /\ pc = "failed" => err = "no print commands found"
        /\ (pc = "create" /\ MovesAfterInit = {}) =>
               /\ positions.FirstPrintX = 0
               /\ positions.FirstPrintY = 0
               /\ positions.FirstPrintZ = 0

C14_Witness ==
    /\ pc = "failed"
    /\ Moves # {}
    /\ MovesAfterInit = {}
    /\ endInit < Len(lines) - 1

-----------------------------------------------------------------------------
(* The construction of the processor.                                      *)

Normalized == ToLower(SpacesToDashes(config.Printer))

NameIsLegal ==
    /\ Normalized # <<>>
    /\ \A k \in 1..Len(Normalized) :
           Normalized[k] \in {"a", "b", "c", "d", "e", "f", "g", "h", "i", "j", "k", "l", "m", "n", "o", "p", "q", "r", "s", "t", "u", "v", "w", "x", "y", "z", "0", "1", "2", "3", "4", "5", "6", "7", "8", "9", "-"}

\* The text the request's definition comes from: the custom template when
\* there is one, else the catalog file that was read, if it exists.
DefinitionText ==
    IF ~config.CustomTemplate.empty THEN config.CustomTemplate
    ELSE IF catalogReads # <<>> /\ catalogReads[1] \in DOMAIN Catalog
         THEN Catalog[catalogReads[1]]
         ELSE EmptyText

\* C15: when the definition declares a range [min, max] for a Positions field
\* and the computed value lies outside it, the transformation fails and no
\* output is produced: an output is created only with every asserted field
\* within its range.
C15_AssertionsEnforced ==
    outputCreated =>
        \A a \in DefinitionText.Assertions : positions[a.field] \in a.min..a.max

\* C16: without a custom template the printer name is lowercased with every
\* space replaced by "-"; when the result is empty or has a character outside
\* [a-zA-Z0-9-] the constructor fails with "invalid printer name" and no
\* catalog file is read; otherwise exactly the file of the normalized name is
\* read.
C16_InvalidPrinterName ==
    (pc # "new" /\ config.CustomTemplate.empty) =>
        IF NameIsLegal
        THEN err # "invalid printer name" /\ catalogReads = <<FileName(Normalized)>>
        ELSE pc = "failed" /\ err = "invalid printer name" /\ catalogReads = <<>>
                /\ printerDef = ZeroDef

C16_Witness ==
    /\ pc = "failed"
    /\ err = "invalid printer name"
    /\ config.CustomTemplate.empty
    /\ \E k \in 1..Len(config.Printer) : config.Printer[k] = "/"
    /\ \E k \in 1..Len(config.Printer) : config.Printer[k] = "E"

MissingFieldErrors ==
    {"custom template missing EndInitSection markers",
     "custom template missing EndPrintSection markers",
     "custom template missing EndInitSectionStrategy",
     "custom template missing EndPrintSectionStrategy",
     "custom template missing Template.Code"}

LacksField(text) ==
    \/ text.EndInitSection = <<>>
    \/ text.EndPrintSection = <<>>
    \/ text.EndInitSectionStrategy = ""
    \/ text.EndPrintSectionStrategy = ""
    \/ text.Code = ""

\* C17: a definition, from the catalog or from a custom template, that lacks
\* endInitSection, endPrintSection, a search-strategy name or template.code is
\* rejected with an error naming the missing field, and no processor is
\* constructed from it.
C17_MalformedRejected ==
    (pc # "new" /\ DefinitionText.parses /\ LacksField(DefinitionText)) =>
        /\ err \in MissingFieldErrors
        /\ printerDef = ZeroDef

\* The custom-template half of C17.
C17_CustomMalformedRejected ==
    (pc # "new" /\ ~config.CustomTemplate.empty /\ DefinitionText.parses
        /\ LacksField(DefinitionText)) =>
        /\ err \in MissingFieldErrors
        /\ printerDef = ZeroDef

-----------------------------------------------------------------------------
(* The lines and the order of the emission.                                *)

\* The text the template renders for iteration n.
RenderedText(n) == Execute(printerDef.Template, [PrinterName |-> printerDef.Name, Iteration |-> n, Request |-> config, Positions |-> positions]).text

\* The places of text t where a non-empty piece starts: a character other
\* than a line feed, at the start of the text or right after a line feed.
PieceStarts(t) ==
    {k \in 1..Len(t) : t[k] # "\n" /\ (k = 1 \/ t[k - 1] = "\n")}

\* The non-empty piece that starts at place k: up to the next line feed.
PieceAt(t, k) ==
    SubSeq(t, k, CHOOSE e \in k..Len(t) :
                     /\ \A j \in k..e : t[j] # "\n"
                     /\ (e = Len(t) \/ t[e + 1] = "\n"))

RECURSIVE PiecesFrom(_, _)
PiecesFrom(t, starts) ==
    IF starts = {} THEN <<>>
    ELSE LET k == CHOOSE x \in starts : \A y \in starts : x <= y
         IN  <<PieceAt(t, k)>> \o PiecesFrom(t, starts \ {k})

\* The lines the template emission is to write for text t.
ExpectedLines(t) ==
    IF \A k \in 1..Len(t) : t[k] # "\n" THEN <<t>> ELSE PiecesFrom(t, PieceStarts(t))

TemplateEmitted == pc = "generated" /\ pc' # "failed"

\* C18: the template emission of an iteration appends to the output the
\* non-empty pieces between the line feeds of the rendered text, in order,
\* one line each, and no empty piece; a rendered text without a line feed is
\* appended as exactly one line, even when it is empty.
C18_RenderedLines ==
    [][TemplateEmitted => output' = output \o ExpectedLines(RenderedText(iter + 1))]_vars

C18_Witness ==
    /\ pc \in {"body", "footer"}
    /\ iter = 1
    /\ printerDef.Template = "gap"
    /\ Len(output) >= 2
    /\ SubSeq(output, Len(output) - 1, Len(output)) = << <<"g">>, <<"h">> >>

BodyEmission ==
    pc = "body" => pc' = "endMarker" /\ iter' = iter /\ output' = output \o BodyLines

EndMarkerEmission ==
    pc = "endMarker" => pc' = "generated" /\ iter' = iter /\ output' = output \o EndMarkerLines

\* The template emission of iteration iter + 1, and where the loop goes next.
TemplateEmission ==
    pc = "generated" =>
        \/ pc' = "failed"
        \/ /\ iter' = iter + 1
           /\ iter' \in 1..config.Iterations
           /\ output' = output \o ExpectedLines(RenderedText(iter'))
           /\ pc' = IF iter' = config.Iterations THEN "footer" ELSE "body"

FooterEmission ==
    pc = "footer" =>
        /\ iter = config.Iterations
        /\ pc' = "done"
        /\ iter' = iter
        /\ output' = output \o FooterLines

\* C19: the emission starts with iteration 1 after the header; each iteration
\* emits the body, then the end-marker range, then the template rendered with
\* Iteration = i, i going 1, 2, ..., Iterations one by one; the footer is
\* emitted once, right after the template of iteration Iterations, and the
\* transformation is then done and takes no further step.
C19_EmissionOrder ==
    [][/\ pc = "header" => pc' = "body" /\ iter = 0 /\ iter' = 0
       /\ BodyEmission
       /\ EndMarkerEmission
       /\ TemplateEmission
       /\ FooterEmission
       /\ pc # "done"]_vars

C19_Witness ==
    /\ pc = "done"
    /\ config.Iterations = 2
    /\ iter = 2
    /\ BodyLines # <<>>
    /\ FooterLines # <<>>
    /\ \E a \in 1..Len(output) : \E b \in (a + 1)..Len(output) :
           output[a] = <<";", "g", "1">> /\ output[b] = <<";", "g", "2">>

-----------------------------------------------------------------------------
(* before_first_appear against after_first_appear.                         *)

Counterpart(op) ==
    CASE op = "after_first_appear.init" -> "before_first_appear.init"
      [] op = "before_first_appear.init" -> "after_first_appear.init"
      [] op = "after_first_appear.print" -> "before_first_appear.print"
      [] op = "before_first_appear.print" -> "after_first_appear.print"

\* What the other first-appearance strategy returns on the same arguments.
OtherResult == Call(Counterpart(searchOp), lines, markers, searchFromLine)

SameOutcome(a, b) == a.ok = b.ok /\ (a.ok => a.first = b.first /\ a.last = b.last)

C20_SameOnProcessFileArguments ==
    (pc = "searched" /\ markers # <<>> /\ searchFromLine >= -1)
        => SameOutcome(res, OtherResult)

-----------------------------------------------------------------------------
(* after_last_appear against after_first_appear.                           *)

FirstOf(op) ==
    IF op = "after_last_appear.init" THEN "after_first_appear.init"
    ELSE "after_first_appear.print"

\* What after_first_appear returns on the arguments of the after_last_appear
\* call the state holds.
FirstResult == Call(FirstOf(searchOp), lines, markers, searchFromLine)

AfterLastSearched ==
    Searched /\ searchOp \in {"after_last_appear.init", "after_last_appear.print"}

\* C21: on the same file, marker sequence and (print search) searchFromLine,
\* when after_last_appear and after_first_appear both succeed the first line
\* after_last_appear returns is not smaller than the one after_first_appear
\* returns.
FirstNotLater(first) == first.ok => res.first >= first.first

C21_LastNotBeforeFirst ==
    (AfterLastSearched /\ res.ok) => FirstNotLater(FirstResult)

C21_Witness ==
    /\ AfterLastSearched
    /\ Len(markers) > 1
    /\ res.ok
    /\ FirstResult.ok
    /\ res.first > FirstResult.first

-----------------------------------------------------------------------------
(* The aggregates.                                                         *)

Aggregated == pc = "aggregated"

\* C22: MinPrintX <= AveragePrintX <= MaxPrintX and MinPrintY <= AveragePrintY
\* <= MaxPrintY on every input, X over the qualifying print moves that carry
\* an X and Y over those that carry a Y; the average is 0 when no qualifying
\* move carries the coordinate.
C22_AverageWithinMinMax ==
    Aggregated =>
        /\ F64LessEq(positions.MinPrintX, positions.AveragePrintX)
        /\ F64LessEq(positions.AveragePrintX, positions.MaxPrintX)
        /\ F64LessEq(positions.MinPrintY, positions.AveragePrintY)
        /\ F64LessEq(positions.AveragePrintY, positions.MaxPrintY)
        /\ positions.countX = 0 => positions.AveragePrintX.m = <<>>
        /\ positions.countY = 0 => positions.AveragePrintY.m = <<>>

-----------------------------------------------------------------------------
(* Transformations side by side.                                           *)

\* What transformation p holds, read from its own variables.
Own(p) ==
    [lines |-> lines[p], def |-> printerDef[p], cfg |-> config[p], pc |-> pc[p],
     err |-> err[p], positions |-> positions[p], outputCreated |-> outputCreated[p],
     output |-> output[p], iter |-> iter[p], opens |-> opens[p]]

Fresh(p) ==
    [Own(p) EXCEPT !.pc = "validateInput", !.err = "", !.positions = ZeroPositions,
                   !.outputCreated = FALSE, !.output = <<>>, !.iter = 0, !.opens = 0]

\* The states transformation s passes through when it runs alone, from s on.
RECURSIVE RunAlone(_)
RunAlone(s) == IF s.pc \in {"done", "failed"} THEN {s} ELSE {s} \cup RunAlone(ProcStep(s))

InFlight(p) == pc[p] \in {"header", "body", "endMarker", "generated", "footer"}

-----------------------------------------------------------------------------
(* How often the input file is opened.                                     *)

BodyOpens == IF positions.EndInitSectionLastLine + 1 < positions.EndPrintSectionFirstLine THEN 2 ELSE 1

\* C24: a transformation that has finished has opened (and closed) the input
\* file exactly four times, whatever the number of iterations and the size
\* of the input.
C24_FourOpens ==
    pc = "done" => opens = 4

\* What holds instead: two searches, the coordinate scan, the header, the
\* footer, and per iteration the end-marker range and the body when it is
\* not empty.
C24_OpensPerIteration ==
    pc = "done" => opens = 5 + config.Iterations * BodyOpens

-----------------------------------------------------------------------------
(* The order check of findMarkerPositions.                                 *)

\* C25: the marker-order rejection never fires: no run of findMarkerPositions
\* ends with "invalid marker positions", because a successful print search
\* returns a first line strictly greater than the last line of the init match.
C25_OrderRejectionNeverFires ==
    err # "invalid marker positions"

\* Both searches succeeded although the last line of the init match carries
\* the print marker too.
C25_Witness ==
    /\ pc = "checkOrder"
    /\ lines[positions.EndInitSectionLastLine + 1] = LAM
    /\ printerDef.EndPrintSection = <<LM>>
    /\ printerDef.EndPrintSectionStrategy = "before_first_appear"

\* The same, at the moment the order is checked.
C25_PrintAfterInit ==
    pc = "checkOrder" => positions.EndInitSectionLastLine < positions.EndPrintSectionFirstLine

-----------------------------------------------------------------------------
(* When the output file comes to exist.                                    *)

EmissionErrors == {"failed to execute template"}

\* C26: when validation, a marker search, the order check or the coordinate
\* extraction fails, the output path has been neither created nor written:
\* the output file is created only after all of these have succeeded.
C26_NoOutputOnEarlyFailure ==
    /\ (pc = "failed" /\ err \notin EmissionErrors) => ~outputCreated /\ output = <<>>
    /\ pc \in {"validateInput", "findInit", "findPrint", "checkOrder", "extract", "create"}
          => ~outputCreated /\ output = <<>>

C26_Witness ==
    /\ pc = "failed"
    /\ err = "no print commands found"
    /\ ~outputCreated

-----------------------------------------------------------------------------
(* A template that fails to execute.                                       *)

\* C27: a template execution error shows only during emission.  When the
\* rendering of iteration i = iter + 1 fails, the output file exists and has
\* been handed the header, the i - 1 complete iterations before it and the
\* body and end-marker range of iteration i (so i copies of them), and
\* ProcessFile returns the error; the template is rendered only while the
\* output file exists.
C27_TemplateErrorLeavesPartialOutput ==
    /\ (pc = "failed" /\ err = "failed to execute template")
          => /\ outputCreated
             /\ output = EmittedHeader \o Repeated(iter) \o BodyLines \o EndMarkerLines
             /\ ~streamGeneratedContent(printerDef, config, positions, iter + 1).ok
    /\ pc = "generated" => outputCreated

C27_Witness ==
    /\ pc = "failed"
    /\ err = "failed to execute template"
    /\ iter = 1
    /\ BodyLines # <<>>
    /\ Rendered(1) # <<>>

-----------------------------------------------------------------------------
(* Staging paths of upload requests.                                       *)

Staging(r) == pc[r] \in {"process", "respond", "cleanup"}

\* C28: two upload requests in flight at once never share a staging path:
\* the upload path and the result path of one differ from those of the
\* other.
C28_StagingPathsDistinct ==
    \A r \in Requests, q \in Requests :
        r # q /\ Staging(r) /\ Staging(q)
            => /\ UploadPath(config[r].FileName) # UploadPath(config[q].FileName)
               /\ ResultPath(config[r].FileName) # ResultPath(config[q].FileName)

\* Its consequence: a request is answered with the transformation of the
\* file it uploaded.
C28_AnsweredWithOwnResult ==
    \A r \in Requests :
        pc[r] = "done" /\ err[r] = "" => output[r] = RunToEnd(ProcessorFor(r, lines[r])).output

-----------------------------------------------------------------------------
(* The names the catalog is read with.                                     *)

\* The printer name a catalog file name was built from.
NameOf(file) == SubSeq(file, Len(FileName(<<>>)) - 4, Len(file) - 5)

\* C29: every read of the embedded catalog is made with a name that passes
\* isValidPrinterName, the reads of TemplateHandler through
\* LoadPrinterDefinitionPublic included.
C29_CatalogReadsValidated ==
    \A k \in 1..Len(catalogReads) :
        /\ catalogReads[k] = FileName(NameOf(catalogReads[k]))
        /\ isValidPrinterName(NameOf(catalogReads[k]))

\* The reads of NewStreamingProcessor alone are validated.
C29_ProcessorReadsValidated ==
    output = <<>> => C29_CatalogReadsValidated

-----------------------------------------------------------------------------
(* How far apart the lines of a multi-entry match can be.                  *)

WindowedOps ==
    {"after_first_appear.init", "after_first_appear.print",
     "before_first_appear.init", "before_first_appear.print"}

MatchSpan == res.last - res.first + 1

\* C30: a multi-entry match that after_first_appear or before_first_appear
\* returns lies within len(markers) + 10 consecutive lines of the file; a
\* marker sequence spread over more lines is not returned by them.
C30_MatchWithinWindow ==
    (pc \in {"searched", "researched"} /\ searchOp \in WindowedOps /\ Len(markers) > 1 /\ res.ok)
        => /\ MatchSpan <= Len(markers) + WindowSlack
           /\ res.first >= 0
           /\ res.last < Len(lines)

\* A returned match that fills the window, and (C30_Spread) a search that
\* returns nothing once the entries are one line further apart.
C30_Witness ==
    /\ pc = "researched"
    /\ searchOp = "before_first_appear.print"
    /\ Len(markers) > 1
    /\ res.ok
    /\ MatchSpan = Len(markers) + WindowSlack

C30_Spread ==
    /\ pc = "researched"
    /\ searchOp \in WindowedOps
    /\ inserted = WindowSlack + 1
    /\ ~res.ok

====
